---- MODULE Spec2Model ----
(***************************************************************************)
(* A model of the Java -> Bedrock mod transpiler.                          *)
(*                                                                         *)
(* The pipeline modelled is transpile_jar of                               *)
(* src/backend/transpiler_engine_v3.py: JarAnalyzer (mod-id derivation,    *)
(* archive scan, entity creation), BedrockConverter (lowering) and         *)
(* AddonGenerator (files of the two packs, the .mcaddon archive).          *)
(*                                                                         *)
(* Representation.  A Python str is a sequence of pieces; a piece is a     *)
(* TLA+ string holding one character, or a literal the code never looks    *)
(* inside (a directory name, a file extension).  f-strings and Path        *)
(* joins are concatenations (\o).  A dict is a function, a JSON object a   *)
(* record, the output directory a function from path to file content.      *)
(***************************************************************************)
EXTENDS Integers, Sequences, FiniteSets, TLC

(***************************************************************************)
(* Strings                                                                 *)
(***************************************************************************)
UpperCase == <<"A","B","C","D","E","F","G","H","I","J","K","L","M",
               "N","O","P","Q","R","S","T","U","V","W","X","Y","Z">>

LowerCase == <<"a","b","c","d","e","f","g","h","i","j","k","l","m",
               "n","o","p","q","r","s","t","u","v","w","x","y","z">>

Digits == {"0","1","2","3","4","5","6","7","8","9"}

Range(f) == {f[i] : i \in DOMAIN f}

\* str.lower() on one character
LowerChar(c) ==
    IF \E i \in 1..26 : UpperCase[i] = c
    THEN LowerCase[CHOOSE i \in 1..26 : UpperCase[i] = c]
    ELSE c

\* str.lower()
Lower(s) == [i \in 1..Len(s) |-> LowerChar(s[i])]

\* s[i:].startswith(w), i counted from 1
HasAt(s, i, w) ==
    /\ i >= 1
    /\ i + Len(w) - 1 <= Len(s)
    /\ SubSeq(s, i, i + Len(w) - 1) = w

\* the Python test  w in s
Contains(s, w) == \E i \in 1..(Len(s) + 1) : HasAt(s, i, w)

\* the number of consecutive digits of s from position i on (regex \d*)
RECURSIVE DigitsLen(_, _)
DigitsLen(s, i) ==
    IF i <= Len(s) /\ s[i] \in Digits THEN 1 + DigitsLen(s, i + 1) ELSE 0

\* the position of the last "." of s, 0 when there is none (str.rfind + 1)
RECURSIVE RFindDot(_, _)
RFindDot(s, i) ==
    IF i = 0 THEN 0 ELSE IF s[i] = "." THEN i ELSE RFindDot(s, i - 1)

\* pathlib's PurePath.stem of a final path component
Stem(name) ==
    LET i == RFindDot(name, Len(name))
    IN  IF 1 < i /\ i < Len(name) THEN SubSeq(name, 1, i - 1) ELSE name

(***************************************************************************)
(* JarAnalyzer._extract_mod_id                                             *)
(***************************************************************************)
W_forge    == <<"f","o","r","g","e">>
W_fabric   == <<"f","a","b","r","i","c">>
W_neoforge == <<"n","e","o","f","o","r","g","e">>

\* length of the match of  [-_](forge|fabric|neoforge|1\.\d+)  at i, 0 if none
LoaderMatch(s, i) ==
    IF i <= Len(s) /\ s[i] \in {"-", "_"}
    THEN IF HasAt(s, i + 1, W_forge) THEN 1 + Len(W_forge)
         ELSE IF HasAt(s, i + 1, W_fabric) THEN 1 + Len(W_fabric)
         ELSE IF HasAt(s, i + 1, W_neoforge) THEN 1 + Len(W_neoforge)
         ELSE IF HasAt(s, i + 1, <<"1", ".">>) /\ DigitsLen(s, i + 3) >= 1
              THEN 3 + DigitsLen(s, i + 3)
         ELSE 0
    ELSE 0

\* length of the match of  [-_]\d+\.?\d*\.?\d*  at i, 0 if none (greedy)
VersionMatch(s, i) ==
    IF i <= Len(s) /\ s[i] \in {"-", "_"} /\ DigitsLen(s, i + 1) >= 1
    THEN LET d1 == DigitsLen(s, i + 1)
             j1 == i + 1 + d1
             p1 == IF j1 <= Len(s) /\ s[j1] = "." THEN 1 ELSE 0
             d2 == DigitsLen(s, j1 + p1)
             j2 == j1 + p1 + d2
             p2 == IF j2 <= Len(s) /\ s[j2] = "." THEN 1 ELSE 0
             d3 == DigitsLen(s, j2 + p2)
         IN  1 + d1 + p1 + d2 + p2 + d3
    ELSE 0

\* re.sub(r'[-_](forge|fabric|neoforge|1\.\d+)', '', s), scanning from i
RECURSIVE SubLoader(_, _)
SubLoader(s, i) ==
    IF i > Len(s) THEN <<>>
    ELSE IF LoaderMatch(s, i) > 0 THEN SubLoader(s, i + LoaderMatch(s, i))
    ELSE <<s[i]>> \o SubLoader(s, i + 1)

\* re.sub(r'[-_]\d+\.?\d*\.?\d*', '', s), scanning from i
RECURSIVE SubVersion(_, _)
SubVersion(s, i) ==
    IF i > Len(s) THEN <<>>
    ELSE IF VersionMatch(s, i) > 0 THEN SubVersion(s, i + VersionMatch(s, i))
    ELSE <<s[i]>> \o SubVersion(s, i + 1)

\* the characters of the class [a-z0-9_]
IsWordChar(c) == c \in Range(LowerCase) \cup Digits \cup {"_"}

\* re.sub(r'[^a-z0-9_]', '_', s)
SubNonWord(s) == [i \in 1..Len(s) |-> IF IsWordChar(s[i]) THEN s[i] ELSE "_"]

ExtractModId(filename) ==
    CHOOSE id \in {SubNonWord(v) :
                     v \in {SubVersion(u, 1) :
                              u \in {SubLoader(t, 1) :
                                       t \in {Lower(Stem(filename))}}}} : TRUE

(***************************************************************************)
(* Dicts, and more of str                                                  *)
(***************************************************************************)
EmptyDict == [k \in {} |-> 0]

\* d[k] = v
Put(d, k, v) == [q \in DOMAIN d \cup {k} |-> IF q = k THEN v ELSE d[q]]

\* d.get(k, default)
Get(d, k, default) == IF k \in DOMAIN d THEN d[k] ELSE default

\* s.split(sep) for a one-piece separator
RECURSIVE SplitFrom(_, _, _, _)
SplitFrom(s, sep, i, cur) ==
    IF i > Len(s) THEN <<cur>>
    ELSE IF s[i] = sep THEN <<cur>> \o SplitFrom(s, sep, i + 1, <<>>)
    ELSE SplitFrom(s, sep, i + 1, Append(cur, s[i]))

Split(s, sep) == SplitFrom(s, sep, 1, <<>>)

Last(q) == q[Len(q)]

\* whether path p lies under directory d (d ends with "/")
Under(p, d) == Len(p) > Len(d) /\ SubSeq(p, 1, Len(d)) = d

(***************************************************************************)
(* The inputs: jar file names and archive entries                          *)
(***************************************************************************)
\* the longest archive (number of entries) that is explored
MaxEntries == 2

N_gem   == <<"g","e","m">>
N_boots == <<"b","o","o","t","s">>
N_ore   == <<"o","r","e">>
N_r3    == <<"r","3">>
N_r4    == <<"r","4">>

Id_ingot == <<"forge", ":", "ingot">>
Id_stick == <<"minecraft", ":", "stick">>

\* a 3x3 shaped crafting recipe
ShapedData(rows) ==
    [type    |-> <<"minecraft", ":", "crafting_shaped">>,
     pattern |-> rows,
     key     |-> [A |-> [item |-> Id_ingot], B |-> [item |-> Id_stick]],
     result  |-> [item |-> N_gem, count |-> 2]]

NoData == [type |-> <<>>]

\* An archive entry: the directory markers its path contains, the stem and
\* extension of its last component, whether jar.read succeeds, whether
\* json.loads succeeds, its content.
Entry(marks, stem, ext, readable, parses, bytes, data) ==
    [marks |-> marks, stem |-> stem, ext |-> ext, readable |-> readable,
     parses |-> parses, bytes |-> bytes, data |-> data]

E_item_gem   == Entry({"item"}, N_gem, "png", TRUE, FALSE, 1, NoData)
E_item_boots == Entry({"item"}, N_boots, "png", TRUE, FALSE, 2, NoData)
E_block_ore  == Entry({"block"}, N_ore, "png", TRUE, FALSE, 3, NoData)
E_block_gem  == Entry({"block"}, N_gem, "png", TRUE, FALSE, 7, NoData)
E_recipe_3   == Entry({"recipes"}, N_r3, "json", TRUE, TRUE, 4,
                      ShapedData(<<"AAA", "ABA", " B ">>))
E_recipe_4   == Entry({"recipes"}, N_r4, "json", TRUE, TRUE, 5,
                      ShapedData(<<"AAA", "ABA", " B ", "AAA">>))
E_other      == Entry({}, N_gem, "txt", TRUE, FALSE, 6, NoData)

JarEntries ==
    {E_item_gem, E_item_boots, E_block_ore, E_block_gem, E_recipe_3, E_recipe_4,
     E_other}

\* the archives explored: every sequence of at most MaxEntries entries
Jars == UNION {[1..n -> JarEntries] : n \in 0..MaxEntries}

F_x   == <<"x", ".", "j", "a", "r">>
F_a_b == <<"a", "-", "b", ".", "j", "a", "r">>

JarNames == {F_x, F_a_b}

(***************************************************************************)
(* State                                                                   *)
(***************************************************************************)
VARIABLES
    input,          \* the jar: [name, exists, is_zip, entries]
    pc,             \* the position of transpile_jar
    idx,            \* analyze: the index of the next entry of jar.namelist()
    mod_id,         \* JarAnalyzer.mod_id
    item_textures,  \* JarAnalyzer.item_textures: stem -> bytes
    block_textures, \* JarAnalyzer.block_textures: stem -> bytes
    recipes,        \* JarAnalyzer.recipes: list of [id, data]
    items,          \* JarAnalyzer.items: name -> JavaItem
    blocks,         \* JarAnalyzer.blocks: name -> JavaBlock
    stats,          \* AddonGenerator.stats
    fs,             \* the output directory: path -> file content
    archive,        \* the .mcaddon: path -> file content
    result          \* what transpile_jar returns

vars == <<input, pc, idx, mod_id, item_textures, block_textures, recipes,
          items, blocks, stats, fs, archive, result>>

analyzerVars == <<mod_id, item_textures, block_textures, recipes, items, blocks>>

Inputs ==
    {[name |-> n, exists |-> ex, is_zip |-> z, entries |-> es] :
        n \in JarNames, ex \in BOOLEAN, z \in BOOLEAN, es \in Jars}

NoResult == [pending |-> TRUE]

Init ==
    /\ input \in {i \in Inputs :
                    (~i.exists \/ ~i.is_zip) => (i.entries = <<>> /\ i.name = F_x)}
    /\ ~input.exists => input.is_zip
    /\ pc = "start"
    /\ idx = 1
    /\ mod_id = <<>>
    /\ item_textures = EmptyDict
    /\ block_textures = EmptyDict
    /\ recipes = <<>>
    /\ items = EmptyDict
    /\ blocks = EmptyDict
    /\ stats = [items |-> 0, blocks |-> 0, recipes |-> 0, textures |-> 0]
    /\ fs = EmptyDict
    /\ archive = EmptyDict
    /\ result = NoResult

(***************************************************************************)
(* transpile_jar: the except clause, and the steps before generation       *)
(***************************************************************************)
\* except Exception as e: return {'success': False, 'error': ..., 'traceback': ...}
Catch(e) ==
    /\ pc' = "returned"
    /\ result' = [success |-> FALSE, error |-> e, traceback |-> e]

\* jar_path.exists(), output_dir.mkdir(), JarAnalyzer(jar_path)
Validate ==
    /\ pc = "start"
    /\ IF ~input.exists
       THEN Catch("FileNotFoundError") /\ UNCHANGED mod_id
       ELSE \/ Catch("OSError") /\ UNCHANGED mod_id
            \/ /\ mod_id' = ExtractModId(input.name)
               /\ pc' = "open"
               /\ UNCHANGED result
    /\ UNCHANGED <<input, idx, item_textures, block_textures, recipes, items,
                   blocks, stats, fs, archive>>

\* analyze: with zipfile.ZipFile(self.jar_path, 'r') as jar
OpenJar ==
    /\ pc = "open"
    /\ IF ~input.is_zip
       THEN Catch("BadZipFile")
       ELSE pc' = "scan" /\ UNCHANGED result
    /\ UNCHANGED <<input, idx, analyzerVars, stats, fs, archive>>

IsItemTexture(e)  == "item" \in e.marks /\ e.ext = "png"
IsBlockTexture(e) == ~IsItemTexture(e) /\ "block" \in e.marks /\ e.ext = "png"
IsRecipe(e) ==
    ~IsItemTexture(e) /\ ~IsBlockTexture(e) /\ "recipes" \in e.marks /\ e.ext = "json"

Scanning == pc = "scan" /\ idx <= Len(input.entries)

\* _extract_item_texture, inside the loop's try/except
ExtractItemTexture ==
    /\ Scanning
    /\ IsItemTexture(input.entries[idx])
    /\ LET e == input.entries[idx]
       IN  item_textures' =
               IF e.readable THEN Put(item_textures, e.stem, e.bytes)
               ELSE item_textures
    /\ idx' = idx + 1
    /\ UNCHANGED <<input, pc, mod_id, block_textures, recipes, items, blocks,
                   stats, fs, archive, result>>

\* _extract_block_texture, inside the loop's try/except
ExtractBlockTexture ==
    /\ Scanning
    /\ IsBlockTexture(input.entries[idx])
    /\ LET e == input.entries[idx]
       IN  block_textures' =
               IF e.readable THEN Put(block_textures, e.stem, e.bytes)
               ELSE block_textures
    /\ idx' = idx + 1
    /\ UNCHANGED <<input, pc, mod_id, item_textures, recipes, items, blocks,
                   stats, fs, archive, result>>

\* _extract_recipe: read and json.loads under its own try/except
ExtractRecipe ==
    /\ Scanning
    /\ IsRecipe(input.entries[idx])
    /\ LET e == input.entries[idx]
       IN  recipes' =
               IF e.readable /\ e.parses
               THEN Append(recipes, [id |-> e.stem, data |-> e.data])
               ELSE recipes
    /\ idx' = idx + 1
    /\ UNCHANGED <<input, pc, mod_id, item_textures, block_textures, items,
                   blocks, stats, fs, archive, result>>

\* an entry no branch of the loop takes
SkipEntry ==
    /\ Scanning
    /\ LET e == input.entries[idx]
       IN  ~IsItemTexture(e) /\ ~IsBlockTexture(e) /\ ~IsRecipe(e)
    /\ idx' = idx + 1
    /\ UNCHANGED <<input, pc, analyzerVars, stats, fs, archive, result>>

ToolWords ==
    {<<"s","w","o","r","d">>, <<"a","x","e">>, <<"p","i","c","k","a","x","e">>,
     <<"s","h","o","v","e","l">>, <<"h","o","e">>}

ArmorWords ==
    {<<"h","e","l","m","e","t">>, <<"c","h","e","s","t","p","l","a","t","e">>,
     <<"l","e","g","g","i","n","g","s">>, <<"b","o","o","t","s">>}

\* JavaItem(identifier=texture_name, texture_name=texture_name) and the role
\* detection of _create_items_from_textures
ItemFromTexture(t) ==
    LET item == [identifier |-> t, texture_name |-> t, max_stack_size |-> 64,
                 max_damage |-> 0, attack_damage |-> 0, is_tool |-> FALSE,
                 is_armor |-> FALSE, is_food |-> FALSE, food_value |-> 0]
    IN  IF \E w \in ToolWords : Contains(t, w)
        THEN [item EXCEPT !.is_tool = TRUE, !.attack_damage = 4,
                          !.max_damage = 250, !.max_stack_size = 1]
        ELSE IF \E w \in ArmorWords : Contains(t, w)
        THEN [item EXCEPT !.is_armor = TRUE, !.max_stack_size = 1,
                          !.max_damage = 250]
        ELSE item

\* JavaBlock(identifier=texture_name, texture_name=texture_name) and the
\* property detection of _create_blocks_from_textures.  hardness2 and
\* resistance2 are twice the Python floats (1.5 is 3).
BlockFromTexture(t) ==
    LET block == [identifier |-> t, texture_name |-> t, hardness2 |-> 3,
                  resistance2 |-> 12, requires_tool |-> FALSE,
                  material |-> "stone", light_emission |-> 0]
    IN  IF Contains(t, <<"o","r","e">>)
        THEN [block EXCEPT !.hardness2 = 6, !.resistance2 = 6,
                           !.requires_tool = TRUE]
        ELSE IF Contains(t, <<"b","l","o","c","k">>)
                \/ Contains(t, <<"b","r","i","c","k","s">>)
        THEN [block EXCEPT !.hardness2 = 10, !.resistance2 = 12]
        ELSE block

\* the end of the scan loop, then _create_items_from_textures
CreateItemsFromTextures ==
    /\ pc = "scan"
    /\ idx > Len(input.entries)
    /\ items' = [t \in DOMAIN item_textures |-> ItemFromTexture(t)]
    /\ pc' = "create_blocks"
    /\ UNCHANGED <<input, idx, mod_id, item_textures, block_textures, recipes,
                   blocks, stats, fs, archive, result>>

\* _create_blocks_from_textures, then AddonGenerator(analyzer.mod_id, output_dir)
CreateBlocksFromTextures ==
    /\ pc = "create_blocks"
    /\ blocks' = [t \in DOMAIN block_textures |-> BlockFromTexture(t)]
    /\ pc' = "create_structure"
    /\ UNCHANGED <<input, idx, mod_id, item_textures, block_textures, recipes,
                   items, stats, fs, archive, result>>

(***************************************************************************)
(* BedrockConverter                                                        *)
(***************************************************************************)
FORMAT == <<"1.20.80">>

Min(a, b) == IF a <= b THEN a ELSE b

Id_air == <<"minecraft", ":", "air">>

\* Python's None, and the truth value of a dict or None
PyNone == [none |-> TRUE]

Truthy(d) == d # PyNone /\ DOMAIN d # {}

\* AdditionalComponentsUnclamped: the durability copied as scanned
AdditionalComponentsUnclamped(item) ==
    (IF item.max_damage > 0
     THEN "minecraft:durability" :> [max_durability |-> item.max_damage]
     ELSE EmptyDict)

\* _get_additional_components
AdditionalComponents(item) ==
    (IF item.max_damage > 0
     THEN "minecraft:durability" :>
              [max_durability |-> Min(item.max_damage, 32767)]
     ELSE EmptyDict)
    @@
    (IF item.attack_damage > 0
     THEN "minecraft:damage" :> item.attack_damage
     ELSE EmptyDict)
    @@
    (IF item.is_tool
     THEN "minecraft:digger" :>
              [use_efficiency |-> TRUE,
               destroy_speeds |-> <<[block |-> <<"minecraft", ":", "stone">>,
                                     speed |-> 8]>>]
     ELSE EmptyDict)
    @@
    (IF item.is_food
     THEN "minecraft:food" :>
              [nutrition |-> item.food_value, can_always_eat |-> FALSE]
     ELSE EmptyDict)

\* convert_item
ConvertItem(item, mod) ==
    [format_version |-> FORMAT,
     kind |-> "minecraft:item",
     body |->
        [description |->
            [identifier |-> mod \o <<":">> \o item.identifier,
             menu_category |->
                [category |-> IF item.is_tool \/ item.is_armor
                              THEN "equipment" ELSE "items"]],
         components |->
            ("minecraft:icon" :> [texture |-> item.texture_name])
            @@ ("minecraft:max_stack_size" :> item.max_stack_size)
            @@ AdditionalComponents(item)]]

\* convert_block; seconds_to_destroy = hardness / 1.5 is the fraction
\* hardness2 / 3, explosion_resistance is kept doubled
ConvertBlock(block, mod) ==
    [format_version |-> FORMAT,
     kind |-> "minecraft:block",
     body |->
        [description |->
            [identifier |-> mod \o <<":">> \o block.identifier,
             menu_category |-> [category |-> "construction"]],
         components |->
            [destructible_by_mining |->
                [seconds_to_destroy |-> [num |-> block.hardness2, den |-> 3]],
             destructible_by_explosion |->
                [explosion_resistance2 |-> block.resistance2],
             geometry |-> "geometry.cube",
             material_instances |->
                [texture |-> block.texture_name, render_method |-> "opaque"],
             light_emission |-> block.light_emission]]]

\* _fix_item_id
FixItemId(item_id, mod) ==
    IF ":" \notin Range(item_id)
    THEN mod \o <<":">> \o item_id
    ELSE LET parts == Split(item_id, ":")
         IN  IF parts[1] = <<"minecraft">>
             THEN item_id
             ELSE mod \o <<":">> \o parts[2]

\* the result object both recipe kinds build
ConvertResult(data, mod) ==
    [item  |-> FixItemId(Get(Get(data, "result", EmptyDict), "item", Id_air), mod),
     count |-> Get(Get(data, "result", EmptyDict), "count", 1)]

\* _convert_shaped
ConvertShaped(recipe, mod) ==
    LET data == recipe.data
        key  == Get(data, "key", EmptyDict)
    IN  [format_version |-> FORMAT,
         kind |-> "minecraft:recipe_shaped",
         body |->
            [description |-> [identifier |-> mod \o <<":">> \o recipe.id],
             tags    |-> <<"crafting_table">>,
             pattern |-> Get(data, "pattern", <<"AAA", "AAA", "AAA">>),
             key     |-> [k \in DOMAIN key |->
                            [item |-> FixItemId(Get(key[k], "item", Id_air), mod)]],
             result  |-> ConvertResult(data, mod)]]

\* _convert_shapeless: the ingredients that are dicts with an 'item'
RECURSIVE ShapelessIngredients(_, _)
ShapelessIngredients(ings, mod) ==
    IF ings = <<>> THEN <<>>
    ELSE (IF "item" \in DOMAIN Head(ings)
          THEN <<[item |-> FixItemId(Head(ings).item, mod)]>>
          ELSE <<>>)
         \o ShapelessIngredients(Tail(ings), mod)

ConvertShapeless(recipe, mod) ==
    LET data == recipe.data
    IN  [format_version |-> FORMAT,
         kind |-> "minecraft:recipe_shapeless",
         body |->
            [description |-> [identifier |-> mod \o <<":">> \o recipe.id],
             tags        |-> <<"crafting_table">>,
             ingredients |-> ShapelessIngredients(Get(data, "ingredients", <<>>), mod),
             result      |-> ConvertResult(data, mod)]]

\* convert_recipe
ConvertRecipe(recipe, mod) ==
    LET recipe_type == Last(Split(Get(recipe.data, "type", <<>>), ":"))
        \* a 'result' that is a str, written [str |-> s], has no .get: the
        \* AttributeError is caught by the bare except
        raises == "str" \in DOMAIN Get(recipe.data, "result", EmptyDict)
    IN  IF recipe_type \notin {<<"crafting_shaped">>, <<"crafting_shapeless">>}
        THEN PyNone
        ELSE IF raises THEN PyNone
        ELSE IF recipe_type = <<"crafting_shaped">> THEN ConvertShaped(recipe, mod)
        ELSE ConvertShapeless(recipe, mod)

(***************************************************************************)
(* AddonGenerator                                                          *)
(***************************************************************************)
BP == <<"behavior_pack", "/">>
RP == <<"resource_pack", "/">>

\* uuid.uuid4(): a random 128-bit value.  Nothing depends on a value but
\* whether it equals another, so a draw is one of the values drawn before
\* or one new value.
Uuid4(seen) == 1..(IF seen = {} THEN 1
                   ELSE 1 + CHOOSE m \in seen : \A v \in seen : v <= m)

UpperChar(c) ==
    IF \E i \in 1..26 : LowerCase[i] = c
    THEN UpperCase[CHOOSE i \in 1..26 : LowerCase[i] = c]
    ELSE c

IsLetter(c) == c \in Range(LowerCase) \cup Range(UpperCase)

\* str.title(): a letter after a non-letter is upper-cased, any other
\* letter is lower-cased
Title(s) ==
    [i \in 1..Len(s) |->
        IF i = 1 \/ ~IsLetter(s[i - 1]) THEN UpperChar(s[i]) ELSE LowerChar(s[i])]

\* the manifests _generate_manifests builds; the description of the
\* behavior pack carries the date of the run
BpManifest(bp_uuid, rp_uuid, module_uuid) ==
    [format_version |-> 2,
     header  |-> [name |-> Title(mod_id) \o <<" BP">>,
                  description |-> "Converted {date}",
                  uuid |-> bp_uuid, version |-> <<1, 0, 0>>,
                  min_engine_version |-> <<1, 20, 80>>],
     modules |-> <<[type |-> "data", uuid |-> module_uuid,
                    version |-> <<1, 0, 0>>]>>,
     dependencies |-> <<[uuid |-> rp_uuid, version |-> <<1, 0, 0>>]>>]

RpManifest(rp_uuid, module_uuid) ==
    [format_version |-> 2,
     header  |-> [name |-> Title(mod_id) \o <<" RP">>,
                  description |-> "Textures and Models",
                  uuid |-> rp_uuid, version |-> <<1, 0, 0>>,
                  min_engine_version |-> <<1, 20, 80>>],
     modules |-> <<[type |-> "resources", uuid |-> module_uuid,
                    version |-> <<1, 0, 0>>]>>]

\* several files written at once: fs updated with the dict of new files
WriteAll(files) ==
    fs' = [q \in DOMAIN fs \cup DOMAIN files |->
              IF q \in DOMAIN files THEN files[q] ELSE fs[q]]

\* _create_structure: the directories are not files of the archive
CreateStructure ==
    /\ pc = "create_structure"
    /\ \/ Catch("OSError")
       \/ pc' = "manifests" /\ UNCHANGED result
    /\ UNCHANGED <<input, idx, analyzerVars, stats, fs, archive>>

\* _generate_manifests: either _save_json may raise
GenerateManifests ==
    /\ pc = "manifests"
    /\ \E bp_uuid \in Uuid4({}) :
       \E rp_uuid \in Uuid4({bp_uuid}) :
       \E bm \in Uuid4({bp_uuid, rp_uuid}) :
       \E rm \in Uuid4({bp_uuid, rp_uuid, bm}) :
         LET bp == BpManifest(bp_uuid, rp_uuid, bm)
             rp == RpManifest(rp_uuid, rm)
         IN  \/ Catch("OSError") /\ UNCHANGED fs
             \/ /\ Catch("OSError")
                /\ WriteAll((BP \o <<"manifest.json">>) :> bp)
             \/ /\ WriteAll(((BP \o <<"manifest.json">>) :> bp)
                            @@ ((RP \o <<"manifest.json">>) :> rp))
                /\ pc' = "items"
                /\ UNCHANGED result
    /\ UNCHANGED <<input, idx, analyzerVars, stats, archive>>

ItemPath(name)   == BP \o <<"items", "/">> \o name \o <<".json">>
BlockPath(name)  == BP \o <<"blocks", "/">> \o name \o <<".json">>
RecipePath(name) == BP \o <<"recipes", "/">> \o name \o <<".json">>

\* _generate_items: a failing item is reported and skipped
GenerateItems ==
    /\ pc = "items"
    /\ \E saved \in SUBSET DOMAIN items :
         /\ WriteAll([q \in {ItemPath(n) : n \in saved} |->
                        LET n == CHOOSE m \in saved : ItemPath(m) = q
                        IN  ConvertItem(items[n], mod_id)])
         /\ stats' = [stats EXCEPT !.items = @ + Cardinality(saved)]
    /\ pc' = "blocks"
    /\ UNCHANGED <<input, idx, analyzerVars, archive, result>>

\* _generate_blocks: a failing block is reported and skipped
GenerateBlocks ==
    /\ pc = "blocks"
    /\ \E saved \in SUBSET DOMAIN blocks :
         /\ WriteAll([q \in {BlockPath(n) : n \in saved} |->
                        LET n == CHOOSE m \in saved : BlockPath(m) = q
                        IN  ConvertBlock(blocks[n], mod_id)])
         /\ stats' = [stats EXCEPT !.blocks = @ + Cardinality(saved)]
    /\ pc' = "recipes"
    /\ UNCHANGED <<input, idx, analyzerVars, archive, result>>

\* the indices of the recipes that convert_recipe lowers to a document
Convertible == {i \in 1..Len(recipes) : Truthy(ConvertRecipe(recipes[i], mod_id))}

\* _generate_recipes: None is skipped, a failing write is swallowed; of two
\* recipes with one id the later file replaces the earlier
GenerateRecipes ==
    /\ pc = "recipes"
    /\ \E saved \in SUBSET Convertible :
         /\ WriteAll([q \in {RecipePath(recipes[i].id) : i \in saved} |->
                        LET i == CHOOSE j \in saved :
                                    /\ RecipePath(recipes[j].id) = q
                                    /\ \A k \in saved :
                                          RecipePath(recipes[k].id) = q => k <= j
                        IN  ConvertRecipe(recipes[i], mod_id)])
         /\ stats' = [stats EXCEPT !.recipes = @ + Cardinality(saved)]
    /\ pc' = "copy_item_textures"
    /\ UNCHANGED <<input, idx, analyzerVars, archive, result>>

ItemPngPath(name)  == RP \o <<"textures", "/", "items", "/">> \o name \o <<".png">>
BlockPngPath(name) == RP \o <<"textures", "/", "blocks", "/">> \o name \o <<".png">>

\* _copy_item_textures: a failing write_bytes is swallowed
CopyItemTextures ==
    /\ pc = "copy_item_textures"
    /\ \E saved \in SUBSET DOMAIN item_textures :
         /\ WriteAll([q \in {ItemPngPath(n) : n \in saved} |->
                        LET n == CHOOSE m \in saved : ItemPngPath(m) = q
                        IN  [bytes |-> item_textures[n]]])
         /\ stats' = [stats EXCEPT !.textures = @ + Cardinality(saved)]
    /\ pc' = "copy_block_textures"
    /\ UNCHANGED <<input, idx, analyzerVars, archive, result>>

\* _copy_block_textures: a failing write_bytes is swallowed
CopyBlockTextures ==
    /\ pc = "copy_block_textures"
    /\ \E saved \in SUBSET DOMAIN block_textures :
         /\ WriteAll([q \in {BlockPngPath(n) : n \in saved} |->
                        LET n == CHOOSE m \in saved : BlockPngPath(m) = q
                        IN  [bytes |-> block_textures[n]]])
         /\ stats' = [stats EXCEPT !.textures = @ + Cardinality(saved)]
    /\ pc' = "item_texture_json"
    /\ UNCHANGED <<input, idx, analyzerVars, archive, result>>

ItemTexturePath    == RP \o <<"textures", "/", "item_texture.json">>
TerrainTexturePath == RP \o <<"textures", "/", "terrain_texture.json">>
BlocksJsonPath     == RP \o <<"blocks.json">>
LanguagesPath      == RP \o <<"texts", "/", "languages.json">>
EnUsPath           == RP \o <<"texts", "/", "en_US.lang">>

\* the key of an item in item_texture.json: f"{self.mod_id}:{name}"
ItemAtlasKey(mod, name) == mod \o <<":">> \o name

\* the key of a block in terrain_texture.json: f"{self.mod_id}_{name}"
TerrainKey(mod, name) == mod \o <<"_">> \o name

\* BlocksJsonKey with the separator of the terrain atlas, {mod_id}_{name}:
\* the variant C8 is tested against
BlocksJsonKeyUnderscore(mod, name) == mod \o <<"_">> \o name

\* the key of a block in blocks.json: f"{self.mod_id}:{name}"
BlocksJsonKey(mod, name) == mod \o <<":">> \o name

\* the dict _generate_item_texture_json saves
ItemTextureJson ==
    [resource_pack_name |-> mod_id,
     texture_name |-> "atlas.items",
     texture_data |->
        [k \in {ItemAtlasKey(mod_id, n) : n \in DOMAIN items} |->
            LET n == CHOOSE m \in DOMAIN items : ItemAtlasKey(mod_id, m) = k
            IN  [textures |-> <<"textures", "/", "items", "/">>
                              \o items[n].texture_name]]]

\* the dict _generate_terrain_texture_json saves
TerrainTextureJson ==
    [resource_pack_name |-> mod_id,
     texture_name |-> "atlas.terrain",
     texture_data |->
        [k \in {TerrainKey(mod_id, n) : n \in DOMAIN blocks} |->
            LET n == CHOOSE m \in DOMAIN blocks : TerrainKey(mod_id, m) = k
            IN  [textures |-> <<"textures", "/", "blocks", "/">>
                              \o blocks[n].texture_name]]]

\* the names _generate_blocks_json iterates over: blocks.items()
BlocksJsonNames == DOMAIN blocks

\* the dict _generate_blocks_json saves
BlocksJson ==
    [k \in {BlocksJsonKey(mod_id, n) : n \in BlocksJsonNames} |->
        LET n == CHOOSE m \in BlocksJsonNames : BlocksJsonKey(mod_id, m) = k
        IN  [textures |-> TerrainKey(mod_id, n), sound |-> "stone"]]

\* a stage that saves one JSON file and goes on, or raises from _save_json
SaveStage(at, path, content, then) ==
    /\ pc = at
    /\ \/ Catch("OSError") /\ UNCHANGED fs
       \/ /\ WriteAll(path :> content)
          /\ pc' = then
          /\ UNCHANGED result
    /\ UNCHANGED <<input, idx, analyzerVars, stats, archive>>

GenerateItemTextureJson ==
    SaveStage("item_texture_json", ItemTexturePath, ItemTextureJson,
              "terrain_texture_json")

GenerateTerrainTextureJson ==
    SaveStage("terrain_texture_json", TerrainTexturePath, TerrainTextureJson,
              "blocks_json")

GenerateBlocksJson ==
    SaveStage("blocks_json", BlocksJsonPath, BlocksJson, "languages")

\* name.replace('_', ' ').title()
Display(name) ==
    Title([i \in 1..Len(name) |-> IF name[i] = "_" THEN " " ELSE name[i]])

ItemLangLine(mod, name) ==
    <<"item.">> \o mod \o <<":">> \o name \o <<".name=">> \o Display(name)

TileLangLine(mod, name) ==
    <<"tile.">> \o mod \o <<":">> \o name \o <<".name=">> \o Display(name)

\* the lines _generate_languages joins (their order, that of the dicts, is
\* not kept)
LangEntries ==
    {ItemLangLine(mod_id, n) : n \in DOMAIN items}
        \cup {TileLangLine(mod_id, n) : n \in DOMAIN blocks}

\* _generate_languages: languages.json, then en_US.lang
GenerateLanguages ==
    /\ pc = "languages"
    /\ \/ Catch("OSError") /\ UNCHANGED fs
       \/ /\ Catch("OSError")
          /\ WriteAll(LanguagesPath :> [languages |-> <<"en_US">>])
       \/ /\ WriteAll((LanguagesPath :> [languages |-> <<"en_US">>])
                      @@ (EnUsPath :> [lines |-> LangEntries]))
          /\ pc' = "pack"
          /\ UNCHANGED result
    /\ UNCHANGED <<input, idx, analyzerVars, stats, archive>>

\* _create_mcaddon: every file under behavior_pack/ and resource_pack/
CreateMcaddon ==
    /\ pc = "pack"
    /\ \/ Catch("OSError") /\ UNCHANGED archive
       \/ /\ archive' = [q \in {f \in DOMAIN fs : Under(f, BP) \/ Under(f, RP)} |->
                            fs[q]]
          /\ pc' = "return"
          /\ UNCHANGED result
    /\ UNCHANGED <<input, idx, analyzerVars, stats, fs>>

\* OkResult with the recipes counted among the items: the variant C15 is
\* tested against
OkResultRecipesAsItems ==
    [success |-> TRUE,
     mod_id |-> mod_id,
     output_file |-> mod_id \o <<".mcaddon">>,
     stats |-> [items_processed   |-> stats.items + stats.recipes,
                blocks_processed  |-> stats.blocks,
                recipes_converted |-> stats.recipes,
                assets_extracted  |-> stats.textures],
     elapsed_time |-> "{elapsed}s"]

\* the dict transpile_jar returns after generate
OkResult ==
    [success |-> TRUE,
     mod_id |-> mod_id,
     output_file |-> mod_id \o <<".mcaddon">>,
     stats |-> [items_processed   |-> stats.items,
                blocks_processed  |-> stats.blocks,
                recipes_converted |-> stats.recipes,
                assets_extracted  |-> stats.textures],
     elapsed_time |-> "{elapsed}s"]

ReturnOk ==
    /\ pc = "return"
    /\ result' = OkResult
    /\ pc' = "returned"
    /\ UNCHANGED <<input, idx, analyzerVars, stats, fs, archive>>

Next ==
    \/ Validate
    \/ OpenJar
    \/ ExtractItemTexture
    \/ ExtractBlockTexture
    \/ ExtractRecipe
    \/ SkipEntry
    \/ CreateItemsFromTextures
    \/ CreateBlocksFromTextures
    \/ CreateStructure
    \/ GenerateManifests
    \/ GenerateItems
    \/ GenerateBlocks
    \/ GenerateRecipes
    \/ CopyItemTextures
    \/ CopyBlockTextures
    \/ GenerateItemTextureJson
    \/ GenerateTerrainTextureJson
    \/ GenerateBlocksJson
    \/ GenerateLanguages
    \/ CreateMcaddon
    \/ ReturnOk

Spec == Init /\ [][Next]_vars

(***************************************************************************)
(* Mod-id derivation on its own: _extract_mod_id over many file names      *)
(***************************************************************************)
\* the longest file name explored, in pieces of NamePieces before ".jar"
MaxPieces == 3

NamePieces ==
    {<<"a">>, <<"B">>, <<"1">>, <<"2">>, <<".">>, <<"-">>, <<"_">>, <<"!">>,
     W_forge, W_fabric, W_neoforge}

RECURSIVE Flatten(_)
Flatten(q) == IF q = <<>> THEN <<>> ELSE Head(q) \o Flatten(Tail(q))

\* file names: up to MaxPieces pieces, with or without the .jar suffix
FileNames ==
    {Flatten(q) \o suffix :
        q \in UNION {[1..n -> NamePieces] : n \in 1..MaxPieces},
        suffix \in {<<>>, <<".", "j", "a", "r">>}}

InitModId ==
    /\ input \in {[name |-> n, exists |-> TRUE, is_zip |-> TRUE, entries |-> <<>>] :
                    n \in FileNames}
    /\ pc = "new_analyzer"
    /\ idx = 1
    /\ mod_id = <<>>
    /\ item_textures = EmptyDict
    /\ block_textures = EmptyDict
    /\ recipes = <<>>
    /\ items = EmptyDict
    /\ blocks = EmptyDict
    /\ stats = [items |-> 0, blocks |-> 0, recipes |-> 0, textures |-> 0]
    /\ fs = EmptyDict
    /\ archive = EmptyDict
    /\ result = NoResult

\* JarAnalyzer.__init__: self.mod_id = self._extract_mod_id()
NewAnalyzer ==
    /\ pc = "new_analyzer"
    /\ mod_id' = ExtractModId(input.name)
    /\ pc' = "analyzer_ready"
    /\ UNCHANGED <<input, idx, item_textures, block_textures, recipes, items,
                   blocks, stats, fs, archive, result>>

NextModId == NewAnalyzer

SpecModId == InitModId /\ [][NextModId]_vars

(***************************************************************************)
(* The command-line engine (AvaritiaTranspiler), run on jars without       *)
(* entries: nothing is parsed, so only the files that do not depend on the *)
(* items are written                                                       *)
(***************************************************************************)
\* main: mod_name = Path(jar_path).stem.lower().split('-')[0]
V1ModName(filename) == Split(Lower(Stem(filename)), "-")[1]

\* the jar paths given on the command line
V1JarNames == JarNames \cup {p \o <<".", "j", "a", "r">> : p \in NamePieces}

InitV1 ==
    /\ input \in {[name |-> n, exists |-> e, is_zip |-> z, entries |-> <<>>] :
                    n \in V1JarNames, e \in BOOLEAN, z \in BOOLEAN}
    /\ ~input.exists => input.is_zip
    /\ pc = "v1_main"
    /\ idx = 1
    /\ mod_id = <<>>
    /\ item_textures = EmptyDict
    /\ block_textures = EmptyDict
    /\ recipes = <<>>
    /\ items = EmptyDict
    /\ blocks = EmptyDict
    /\ stats = [items |-> 0, blocks |-> 0, recipes |-> 0, textures |-> 0]
    /\ fs = EmptyDict
    /\ archive = EmptyDict
    /\ result = NoResult

v1Unwritten == <<input, idx, item_textures, block_textures, recipes, items,
                 blocks, stats, archive, result>>

\* main's except clause: the error is printed and the process exits with 1
V1Exit ==
    pc' = "v1_exit1"

V1Main ==
    /\ pc = "v1_main"
    /\ mod_id' = V1ModName(input.name)
    /\ pc' = "v1_parse_jar"
    /\ UNCHANGED <<input, idx, item_textures, block_textures, recipes, items,
                   blocks, stats, fs, archive, result>>

\* parse_jar: FileNotFoundError, BadZipFile, or the loop over no entry
V1ParseJar ==
    /\ pc = "v1_parse_jar"
    /\ IF input.exists /\ input.is_zip THEN pc' = "v1_convert_all" ELSE V1Exit
    /\ UNCHANGED <<mod_id, fs>>
    /\ UNCHANGED v1Unwritten

\* convert_all: one file per item and per recipe, none here
V1ConvertAll ==
    /\ pc = "v1_convert_all"
    /\ pc' = "v1_generate_scripts"
    /\ UNCHANGED <<mod_id, fs>>
    /\ UNCHANGED v1Unwritten

V1MainJsPath == BP \o <<"scripts", "/", "main.js">>

\* generate_scripts: with no item and no recipe only main.js is written
V1GenerateScripts ==
    /\ pc = "v1_generate_scripts"
    /\ \/ V1Exit /\ UNCHANGED fs
       \/ /\ WriteAll(V1MainJsPath :> [script |-> "main"])
          /\ pc' = "v1_build_addon_structure"
    /\ UNCHANGED mod_id
    /\ UNCHANGED v1Unwritten

V1PackTitle(pack_type) ==
    IF pack_type = "behavior" THEN <<" ", "Behavior", " Pack">>
    ELSE <<" ", "Resource", " Pack">>

\* _generate_manifest(pack_path, pack_type)
V1Manifest(pack_type, pack_uuid, module_uuid) ==
    LET header == [name |-> Title(mod_id) \o V1PackTitle(pack_type),
                   description |-> "Converted from Java Edition Mod {date}",
                   uuid |-> pack_uuid, version |-> <<1, 0, 0>>,
                   min_engine_version |-> <<1, 20, 60>>]
    IN  IF pack_type = "behavior"
        THEN [format_version |-> 2,
              header  |-> header,
              modules |-> <<[type |-> "data", uuid |-> module_uuid,
                             version |-> <<1, 0, 0>>]>>,
              dependencies |->
                  <<[module_name |-> "@minecraft/server", version |-> "1.9.0"],
                    [module_name |-> "@minecraft/server-ui", version |-> "1.2.0"]>>,
              capabilities |-> <<"script_eval">>]
        ELSE [format_version |-> 2,
              header  |-> header,
              modules |-> <<[type |-> "resources", uuid |-> module_uuid,
                             version |-> <<1, 0, 0>>]>>]

\* AssetManager.generate_texture_list, texture_map being empty
V1TextureList ==
    [resource_pack_name |-> <<"avaritia">>, texture_name |-> "atlas.terrain",
     texture_data |-> EmptyDict]

\* the item atlas of build_addon_structure, self.items being empty
V1ItemTextures ==
    [resource_pack_name |-> mod_id, texture_name |-> "atlas.items",
     texture_data |-> EmptyDict]

\* the files build_addon_structure writes, in the order it writes them
V1Files(bp_uuid, bp_module, rp_uuid, rp_module) ==
    <<[path |-> BP \o <<"manifest.json">>,
       doc  |-> V1Manifest("behavior", bp_uuid, bp_module)],
      [path |-> RP \o <<"manifest.json">>,
       doc  |-> V1Manifest("resource", rp_uuid, rp_module)],
      [path |-> TerrainTexturePath, doc |-> V1TextureList],
      [path |-> ItemTexturePath, doc |-> V1ItemTextures],
      [path |-> LanguagesPath, doc |-> [languages |-> <<"en_US">>]],
      [path |-> EnUsPath, doc |-> [lines |-> {}]]>>

\* build_addon_structure: a write that raises ends the run with the files
\* written before it left on disk
V1BuildAddonStructure ==
    /\ pc = "v1_build_addon_structure"
    /\ \E bp_uuid \in Uuid4({}) :
       \E bp_module \in Uuid4({bp_uuid}) :
       \E rp_uuid \in Uuid4({bp_uuid, bp_module}) :
       \E rp_module \in Uuid4({bp_uuid, bp_module, rp_uuid}) :
         LET files == V1Files(bp_uuid, bp_module, rp_uuid, rp_module)
         IN  \E k \in 0..Len(files) :
               /\ WriteAll([q \in {files[i].path : i \in 1..k} |->
                              LET i == CHOOSE j \in 1..k : files[j].path = q
                              IN  files[i].doc])
               /\ IF k = Len(files) THEN pc' = "v1_package_mcaddon" ELSE V1Exit
    /\ UNCHANGED mod_id
    /\ UNCHANGED v1Unwritten

\* package_mcaddon, then print_report
V1PackageMcaddon ==
    /\ pc = "v1_package_mcaddon"
    /\ \/ V1Exit /\ UNCHANGED archive
       \/ /\ archive' = [q \in {f \in DOMAIN fs : Under(f, BP) \/ Under(f, RP)} |->
                            fs[q]]
          /\ pc' = "v1_done"
    /\ UNCHANGED <<input, idx, analyzerVars, stats, fs, result>>

NextV1 ==
    \/ V1Main
    \/ V1ParseJar
    \/ V1ConvertAll
    \/ V1GenerateScripts
    \/ V1BuildAddonStructure
    \/ V1PackageMcaddon

SpecV1 == InitV1 /\ [][NextV1]_vars

(***************************************************************************)
(* Item-id normalisation on its own, as each engine does it                *)
(***************************************************************************)
\* the longest item id explored, in pieces of IdPieces
MaxIdPieces == 3

IdPieces == {"minecraft", "forge", "x", "ingot", ":"}

ItemIds == UNION {[1..n -> IdPieces] : n \in 1..MaxIdPieces}

\* BedrockConverter._normalize_item_id of the job-server engine
NormalizeItemId(item_id, mod) ==
    IF HasAt(item_id, 1, mod \o <<":">>) THEN item_id
    ELSE IF HasAt(item_id, 1, <<"minecraft", ":">>) THEN item_id
    ELSE IF ":" \notin Range(item_id) THEN mod \o <<":">> \o item_id
    ELSE LET parts == Split(item_id, ":")
         IN  IF Len(parts) = 2 THEN mod \o <<":">> \o parts[2] ELSE item_id

\* str.replace('minecraft:', ''), from position i on
RECURSIVE StripMinecraft(_, _)
StripMinecraft(s, i) ==
    IF i > Len(s) THEN <<>>
    ELSE IF HasAt(s, i, <<"minecraft", ":">>) THEN StripMinecraft(s, i + 2)
    ELSE <<s[i]>> \o StripMinecraft(s, i + 1)

\* the item id _convert_recipe_key and _convert_recipe_result of the
\* command-line engine emit
V1ItemId(item_id) == StripMinecraft(item_id, 1)

InitNormalize ==
    /\ input \in {[item_id |-> i] : i \in ItemIds}
    /\ mod_id \in {<<"x">>, <<"m", "y">>}
    /\ pc = "normalize"
    /\ idx = 1
    /\ item_textures = EmptyDict
    /\ block_textures = EmptyDict
    /\ recipes = <<>>
    /\ items = EmptyDict
    /\ blocks = EmptyDict
    /\ stats = [items |-> 0, blocks |-> 0, recipes |-> 0, textures |-> 0]
    /\ fs = EmptyDict
    /\ archive = EmptyDict
    /\ result = NoResult

\* one call of the normalisation, its return value kept in result
Normalized(item, then) ==
    /\ pc = "normalize"
    /\ result' = [item |-> item]
    /\ pc' = then
    /\ UNCHANGED <<input, idx, analyzerVars, stats, fs, archive>>

\* _fix_item_id, _normalize_item_id, and the command-line engine's replace
NextNormalize ==
    \/ Normalized(FixItemId(input.item_id, mod_id), "fixed")
    \/ Normalized(NormalizeItemId(input.item_id, mod_id), "fixed_v2")
    \/ Normalized(V1ItemId(input.item_id), "fixed_v1")

SpecNormalize == InitNormalize /\ [][NextNormalize]_vars

(***************************************************************************)
(* The lowering of one recipe on its own.  A JSON string that stands where *)
(* an object may stand is written [str |-> s]                              *)
(***************************************************************************)
T_copper == <<"forge", ":", "ingots", "/", "copper">>
T_ingots == <<"forge", ":", "ingots">>

ResultShapes ==
    UNION {{[item |-> i, count |-> 2], [item |-> i], [id |-> i, count |-> 3],
            [str |-> i]} : i \in {N_gem, Id_ingot, Id_stick}}

Ingredients == {[item |-> Id_ingot], [tag |-> T_copper], [tag |-> T_ingots]}

\* shaped and shapeless recipes, with each shape of result and without one
RecipeDatas ==
    LET bodies ==
            {[type |-> <<"minecraft", ":", "crafting_shaped">>,
              pattern |-> <<"AB">>, key |-> [A |-> a, B |-> b]] :
                 a \in Ingredients, b \in Ingredients}
            \cup
            {[type |-> <<"minecraft", ":", "crafting_shapeless">>,
              ingredients |-> <<a, b>>] : a \in Ingredients, b \in Ingredients}
    IN  bodies \cup {Put(d, "result", r) : d \in bodies, r \in ResultShapes}

\* BedrockConverter._convert_result of the job-server engine
ConvertResultV2(res, mod) ==
    IF "str" \in DOMAIN res
    THEN [item |-> NormalizeItemId(res.str, mod), count |-> 1]
    ELSE [item  |-> NormalizeItemId(Get(res, "item", Get(res, "id", Id_air)), mod),
          count |-> Get(res, "count", 1)]

\* BedrockConverter._convert_ingredient of the job-server engine
ConvertIngredientV2(ingredient, mod) ==
    IF DOMAIN ingredient = {} THEN [item |-> Id_air]
    ELSE IF "str" \in DOMAIN ingredient
    THEN [item |-> NormalizeItemId(ingredient.str, mod)]
    ELSE IF "item" \in DOMAIN ingredient
    THEN [item  |-> NormalizeItemId(ingredient.item, mod),
          count |-> Get(ingredient, "count", 1)]
    ELSE IF "tag" \in DOMAIN ingredient
    THEN [item |-> <<"minecraft", ":">> \o Last(Split(ingredient.tag, "/"))]
    ELSE [item |-> Id_air]

\* the ingredients of a recipe, of either kind, in order
IngredientsOf(data) ==
    IF "key" \in DOMAIN data THEN <<data.key.A, data.key.B>>
    ELSE Get(data, "ingredients", <<>>)

InitRecipe ==
    /\ input \in {[id |-> N_r3, data |-> d] : d \in RecipeDatas}
    /\ mod_id = <<"x">>
    /\ pc = "normalize"
    /\ idx = 1
    /\ item_textures = EmptyDict
    /\ block_textures = EmptyDict
    /\ recipes = <<>>
    /\ items = EmptyDict
    /\ blocks = EmptyDict
    /\ stats = [items |-> 0, blocks |-> 0, recipes |-> 0, textures |-> 0]
    /\ fs = EmptyDict
    /\ archive = EmptyDict
    /\ result = NoResult

\* convert_recipe of the engine in use, and _convert_result and
\* _convert_ingredient of the job-server engine on the same recipe
NextRecipe ==
    \/ Normalized(ConvertRecipe(input, mod_id), "lowered")
    \/ Normalized(ConvertResultV2(Get(input.data, "result", EmptyDict), mod_id),
                  "result_v2")
    \/ Normalized([i \in 1..2 |->
                     ConvertIngredientV2(IngredientsOf(input.data)[i], mod_id)],
                  "ingredients_v2")

SpecRecipe == InitRecipe /\ [][NextRecipe]_vars

(***************************************************************************)
(* transpile_jar on archives with entries that cannot be read or parsed    *)
(***************************************************************************)
E_item_unreadable    == Entry({"item"}, N_boots, "png", FALSE, FALSE, 0, NoData)
E_recipe_unparsable  == Entry({"recipes"}, N_r4, "json", TRUE, FALSE, 8, NoData)

CorruptEntries ==
    {E_item_gem, E_item_unreadable, E_block_ore, E_recipe_3, E_recipe_unparsable,
     E_other}

\* every field but the input and the mod id, as the constructors leave them
Blank(at) ==
    /\ pc = at
    /\ idx = 1
    /\ item_textures = EmptyDict
    /\ block_textures = EmptyDict
    /\ recipes = <<>>
    /\ items = EmptyDict
    /\ blocks = EmptyDict
    /\ stats = [items |-> 0, blocks |-> 0, recipes |-> 0, textures |-> 0]
    /\ fs = EmptyDict
    /\ archive = EmptyDict
    /\ result = NoResult

InitCorrupt ==
    /\ input \in {[name |-> F_x, exists |-> TRUE, is_zip |-> TRUE, entries |-> es] :
                    es \in UNION {[1..n -> CorruptEntries] : n \in 0..MaxEntries}}
    /\ mod_id = <<>>
    /\ Blank("start")

SpecCorrupt == InitCorrupt /\ [][Next]_vars

(***************************************************************************)
(* The job-server engine on recipes of the custom primary/secondary kind   *)
(***************************************************************************)
T_compress == <<"avaritia", ":", "compressor">>

CustomIngredients == {[item |-> Id_ingot], [tag |-> T_copper], [str |-> N_gem]}

\* recipes without pattern and ingredients, with primary and/or secondary,
\* with or without one more top-level field
CustomDatas ==
    LET base == [type |-> T_compress]
        with(D, k, V) == D \cup {Put(d, k, v) : d \in D, v \in V}
        one  == with({base}, "primary", CustomIngredients)
        two  == with(one, "secondary", CustomIngredients)
        more == with(two, "catalyst", {[item |-> Id_stick], [tag |-> T_ingots],
                                       [ticks |-> 1]})
    IN  {d \in with(more, "result", {[item |-> N_gem, count |-> 2], [str |-> N_gem]}) :
            "primary" \in DOMAIN d \/ "secondary" \in DOMAIN d}

\* JarAnalyzer._analyze_recipe: the JavaRecipe built from a recipe JSON
AnalyzeRecipeV2(recipe_id, data) ==
    LET pattern == IF "pattern" \in DOMAIN data THEN data.pattern ELSE <<>>
    IN  [recipe_id |-> recipe_id,
         pattern |-> pattern,
         key |-> IF "pattern" \in DOMAIN data THEN Get(data, "key", EmptyDict)
                 ELSE EmptyDict,
         ingredients |->
             IF "pattern" \in DOMAIN data THEN <<>>
             ELSE IF "ingredients" \in DOMAIN data THEN data.ingredients
             ELSE IF "primary" \in DOMAIN data \/ "secondary" \in DOMAIN data
             THEN <<Get(data, "primary", EmptyDict), Get(data, "secondary", EmptyDict)>>
             ELSE <<>>,
         result |-> Get(data, "result", EmptyDict),
         is_extreme |-> \/ Len(pattern) > 3
                        \/ \E i \in 1..Len(pattern) : Len(pattern[i]) > 3,
         raw_data |-> data]

\* BedrockConverter._convert_shaped_recipe
ConvertShapedV2(recipe, mod) ==
    [format_version |-> FORMAT,
     kind |-> "minecraft:recipe_shaped",
     body |->
        [description |-> [identifier |-> mod \o <<":">> \o recipe.recipe_id],
         tags    |-> <<"crafting_table">>,
         pattern |-> recipe.pattern,
         key     |-> [k \in DOMAIN recipe.key |-> ConvertIngredientV2(recipe.key[k], mod)],
         result  |-> ConvertResultV2(recipe.result, mod)]]

\* the body both shapeless forms share
ShapelessV2(recipe, mod, ingredients) ==
    [format_version |-> FORMAT,
     kind |-> "minecraft:recipe_shapeless",
     body |->
        [description |-> [identifier |-> mod \o <<":">> \o recipe.recipe_id],
         tags        |-> <<"crafting_table">>,
         ingredients |-> ingredients,
         result      |-> ConvertResultV2(recipe.result, mod)]]

\* BedrockConverter._convert_shapeless_recipe: every converted ingredient is
\* a non-empty dict, so each is appended
ConvertShapelessV2(recipe, mod) ==
    ShapelessV2(recipe, mod,
                [i \in 1..Len(recipe.ingredients) |->
                    ConvertIngredientV2(recipe.ingredients[i], mod)])

\* the other top-level fields that are dicts with 'item' or 'tag'
OtherIngredients(data) ==
    LET RECURSIVE inOrder(_)
        inOrder(ks) == IF ks = {} THEN <<>>
                       ELSE LET k == CHOOSE x \in ks : TRUE
                            IN  <<data[k]>> \o inOrder(ks \ {k})
    IN  inOrder({k \in DOMAIN data \ {"type", "primary", "secondary", "result"} :
                    "item" \in DOMAIN data[k] \/ "tag" \in DOMAIN data[k]})

\* BedrockConverter._convert_custom_recipe
ConvertCustomRecipeV2(recipe, mod) ==
    LET data == recipe.raw_data
        given == (IF "primary" \in DOMAIN data THEN <<data.primary>> ELSE <<>>)
                 \o (IF "secondary" \in DOMAIN data THEN <<data.secondary>> ELSE <<>>)
                 \o OtherIngredients(data)
    IN  ShapelessV2(recipe, mod,
                    [i \in 1..Len(given) |-> ConvertIngredientV2(given[i], mod)])

\* BedrockConverter.convert_recipe of the job-server engine
ConvertRecipeV2(recipe, mod) ==
    IF recipe.is_extreme THEN PyNone
    ELSE IF recipe.pattern # <<>> THEN ConvertShapedV2(recipe, mod)
    ELSE IF recipe.ingredients # <<>> THEN ConvertShapelessV2(recipe, mod)
    ELSE IF "primary" \in DOMAIN recipe.raw_data \/ "secondary" \in DOMAIN recipe.raw_data
    THEN ConvertCustomRecipeV2(recipe, mod)
    ELSE PyNone

InitCustom ==
    /\ input \in ({[id |-> N_r3, data |-> d] : d \in CustomDatas}
                    \cup {[id |-> N_r3, data |-> E_recipe_3.data],
                          [id |-> N_r4, data |-> E_recipe_4.data],
                          [id |-> N_r3, data |-> [type |-> T_compress]]})
    /\ mod_id = <<"x">>
    /\ Blank("normalize")

\* _analyze_recipe and convert_recipe of the job-server engine, and
\* convert_recipe of the engine in use, on the same recipe
NextCustom ==
    \/ Normalized(ConvertRecipeV2(AnalyzeRecipeV2(input.id, input.data), mod_id),
                  "lowered_v2")
    \/ Normalized(ConvertRecipe(input, mod_id), "lowered")

SpecCustom == InitCustom /\ [][NextCustom]_vars

(***************************************************************************)
(* The synthesis of one item from a texture name, as each backend engine   *)
(* does it                                                                 *)
(***************************************************************************)
\* texture names: a role word or none, in lower case, capitalised or in
\* upper case, alone or after a prefix
RoleNames ==
    LET words == ToolWords \cup ArmorWords \cup {N_gem}
        cased(w) == {w, Title(w), [i \in 1..Len(w) |-> UpperChar(w[i])]}
    IN  UNION {{c, <<"m", "y", "_">> \o c} : c \in UNION {cased(w) : w \in words}}

\* JavaItem(identifier=texture_name, texture_name=texture_name,
\* max_stack_size=64) of _create_default_items of the job-server engine
DefaultItemV2(t) ==
    [identifier |-> t, class_name |-> <<>>, max_damage |-> 0, max_stack_size |-> 64,
     is_fireproof |-> FALSE, armor_value |-> 0, attack_damage |-> 0,
     mining_speed |-> 1, is_edible |-> FALSE, food_value |-> 0, saturation |-> 0,
     texture_name |-> t, has_custom_behavior |-> FALSE,
     creative_category |-> "items"]

InitRoles ==
    /\ input \in {[texture_name |-> t] : t \in RoleNames}
    /\ mod_id = <<"x">>
    /\ Blank("normalize")

\* _create_items_from_textures and _create_default_items on one texture
NextRoles ==
    \/ Normalized(ItemFromTexture(input.texture_name), "synthesized")
    \/ Normalized(DefaultItemV2(input.texture_name), "synthesized_v2")

SpecRoles == InitRoles /\ [][NextRoles]_vars

(***************************************************************************)
(* The lowering of one item with a scanned durability, as each engine does *)
(* it                                                                      *)
(***************************************************************************)
\* the largest of the small durabilities explored
MaxSmallDurability == 40

\* Integer.MAX_VALUE of the source edition
JavaMaxValue == 2147483647

Durabilities ==
    0..MaxSmallDurability
        \cup {250, 32766, 32767, 32768, 65535, JavaMaxValue - 1, JavaMaxValue}

\* BedrockConverter.convert_item of the job-server engine
ConvertItemV2(item, mod) ==
    [format_version |-> FORMAT,
     kind |-> "minecraft:item",
     body |->
        [description |->
            [identifier |-> mod \o <<":">> \o item.identifier,
             menu_category |->
                [category |-> item.creative_category,
                 group |-> <<"itemGroup.name.">> \o mod]],
         components |->
            ("minecraft:max_stack_size" :> item.max_stack_size)
            @@ (IF item.max_damage > 0
                THEN "minecraft:durability" :>
                         [max_durability |-> Min(item.max_damage, 32767)]
                ELSE EmptyDict)
            @@ (IF item.is_fireproof THEN "minecraft:ignores_damage" :> TRUE
                ELSE EmptyDict)
            @@ (IF item.attack_damage > 0
                THEN "minecraft:damage" :> item.attack_damage ELSE EmptyDict)
            @@ (IF item.armor_value > 0
                THEN "minecraft:armor" :> [protection |-> item.armor_value]
                ELSE EmptyDict)
            @@ (IF item.is_edible
                THEN "minecraft:food" :>
                         [nutrition |-> item.food_value,
                          saturation_modifier |-> item.saturation,
                          can_always_eat |-> FALSE]
                ELSE EmptyDict)
            @@ (IF item.mining_speed > 1
                THEN "minecraft:digger" :>
                         [use_efficiency |-> TRUE,
                          destroy_speeds |-> <<[block |-> <<"minecraft", ":", "stone">>,
                                                speed |-> item.mining_speed]>>]
                ELSE EmptyDict)
            @@ (IF item.has_custom_behavior
                THEN "minecraft:tags" :> [tags |-> <<mod \o <<":", "custom">>>>]
                ELSE EmptyDict)]]

\* the durability component convert_item of the command-line engine builds
V1Durability(max_damage) ==
    IF max_damage > 0
    THEN "minecraft:durability" :>
             (IF max_damage >= 2147483647
              THEN [max_durability |-> Min(max_damage, 32767),
                    damage_chance |-> [min |-> 0, max |-> 0]]
              ELSE [max_durability |-> Min(max_damage, 32767)])
    ELSE EmptyDict

InitDurability ==
    /\ input \in {[max_damage |-> n] : n \in Durabilities}
    /\ mod_id = <<"x">>
    /\ Blank("normalize")

\* convert_item of the three engines on an item with the scanned durability
NextDurability ==
    \/ Normalized(ConvertItem([ItemFromTexture(N_gem) EXCEPT
                                   !.max_damage = input.max_damage], mod_id).body.components,
                  "lowered")
    \/ Normalized(ConvertItemV2([DefaultItemV2(N_gem) EXCEPT
                                     !.max_damage = input.max_damage], mod_id).body.components,
                  "lowered_v2")
    \/ Normalized(V1Durability(input.max_damage), "lowered_v1")

SpecDurability == InitDurability /\ [][NextDurability]_vars

(***************************************************************************)
(* The items of the job-server engine: the scan of item classes and item   *)
(* textures, the default items, and the item documents, the atlas and the  *)
(* language table generate writes from them.  The manifests, recipes and   *)
(* texture copies, which none of these read, are left out                  *)
(***************************************************************************)
C_Gem     == <<"G", "e", "m">>
C_GemItem == <<"G", "e", "m", "I", "t", "e", "m">>
C_Ore     == <<"O", "r", "e">>

\* an item class, with the literal of its register("...") call if it has
\* one, or an item texture
V2Entries ==
    {[kind |-> "class", stem |-> C_Gem, register |-> <<>>],
     [kind |-> "class", stem |-> C_Gem, register |-> <<"x", ":">> \o N_ore],
     [kind |-> "class", stem |-> C_GemItem, register |-> N_ore],
     [kind |-> "class", stem |-> C_Ore, register |-> <<>>],
     [kind |-> "png", stem |-> N_gem, register |-> <<>>],
     [kind |-> "png", stem |-> N_ore, register |-> <<>>]}

\* re.sub(r'(?<!^)(?=[A-Z])', '_', item_name).lower()
RECURSIVE CamelToSnake(_, _)
CamelToSnake(name, i) ==
    IF i > Len(name) THEN <<>>
    ELSE (IF i > 1 /\ name[i] \in Range(UpperCase) THEN <<"_">> ELSE <<>>)
         \o <<LowerChar(name[i])>> \o CamelToSnake(name, i + 1)

InitV2Items ==
    /\ input \in {[name |-> F_x, entries |-> es] :
                    es \in UNION {[1..n -> V2Entries] : n \in 0..MaxEntries}}
    /\ mod_id = <<"x">>
    /\ Blank("scan_v2")

v2Unused == <<input, mod_id, block_textures, recipes, blocks, stats, archive>>

\* _analyze_item_class with _process_item_attribute: the item is stored
\* under the identifier derived from the class name
AnalyzeItemClassV2 ==
    /\ pc = "scan_v2" /\ idx <= Len(input.entries)
    /\ input.entries[idx].kind = "class"
    /\ LET e == input.entries[idx]
           identifier == CamelToSnake(e.stem, 1)
           item == [DefaultItemV2(identifier) EXCEPT
                       !.class_name = e.stem,
                       !.identifier = IF e.register # <<>>
                                      THEN Last(Split(e.register, ":"))
                                      ELSE identifier]
       IN  items' = Put(items, identifier, item)
    /\ idx' = idx + 1
    /\ UNCHANGED <<pc, item_textures, fs, result>>
    /\ UNCHANGED v2Unused

\* _extract_texture
ExtractTextureV2 ==
    /\ pc = "scan_v2" /\ idx <= Len(input.entries)
    /\ input.entries[idx].kind = "png"
    /\ item_textures' = Put(item_textures, input.entries[idx].stem, 1)
    /\ idx' = idx + 1
    /\ UNCHANGED <<pc, items, fs, result>>
    /\ UNCHANGED v2Unused

\* the end of the loop, then _create_default_items
CreateDefaultItemsV2 ==
    /\ pc = "scan_v2" /\ idx > Len(input.entries)
    /\ items' = [k \in DOMAIN items \cup DOMAIN item_textures |->
                    IF k \in DOMAIN items THEN items[k] ELSE DefaultItemV2(k)]
    /\ pc' = "items_v2"
    /\ UNCHANGED <<idx, item_textures, fs, result>>
    /\ UNCHANGED v2Unused

\* _generate_items: the file is named after the key of the dict; a failing
\* item is recorded and skipped
GenerateItemsV2 ==
    /\ pc = "items_v2"
    /\ \E saved \in SUBSET DOMAIN items :
         WriteAll([q \in {ItemPath(n) : n \in saved} |->
                     LET n == CHOOSE k \in saved : ItemPath(k) = q
                     IN  ConvertItemV2(items[n], mod_id)])
    /\ pc' = "mapping_v2"
    /\ UNCHANGED <<idx, items, item_textures, result>>
    /\ UNCHANGED v2Unused

\* the dict _generate_texture_mapping saves
TextureMappingV2 ==
    LET mapped == {k \in DOMAIN items :
                      (IF items[k].texture_name # <<>> THEN items[k].texture_name
                       ELSE k) \in DOMAIN item_textures}
    IN  [resource_pack_name |-> mod_id,
         texture_name |-> "atlas.items",
         texture_data |->
            [a \in {ItemAtlasKey(mod_id, k) : k \in mapped} |->
                LET k == CHOOSE n \in mapped : ItemAtlasKey(mod_id, n) = a
                IN  [textures |-> <<"textures", "/", "items", "/">>
                                  \o (IF items[k].texture_name # <<>>
                                      THEN items[k].texture_name ELSE k)]]]

\* _generate_language_files: languages.json, then en_US.lang with one line
\* per key of the dict
GenerateLanguageFilesV2 ==
    /\ pc = "languages_v2"
    /\ LET index == LanguagesPath :> [languages |-> <<"en_US", "pt_BR">>]
           en_US == EnUsPath :>
                        [lines |-> {ItemLangLine(mod_id, k) : k \in DOMAIN items}]
       IN  \/ Catch("OSError") /\ UNCHANGED fs
           \/ Catch("OSError") /\ WriteAll(index)
           \/ WriteAll(index @@ en_US) /\ pc' = "done_v2" /\ UNCHANGED result
    /\ UNCHANGED <<idx, items, item_textures>>
    /\ UNCHANGED v2Unused

\* the scan and generate of the job-server engine, items only
NextV2Items ==
    \/ AnalyzeItemClassV2
    \/ ExtractTextureV2
    \/ CreateDefaultItemsV2
    \/ GenerateItemsV2
    \/ SaveStage("mapping_v2", ItemTexturePath, TextureMappingV2, "languages_v2")
    \/ GenerateLanguageFilesV2

SpecV2Items == InitV2Items /\ [][NextV2Items]_vars

(***************************************************************************)
(* The job server: every upload starts a thread that runs transpile_jar;   *)
(* the threads share the file system and the conversion_jobs dict.  Here   *)
(* input, pc and idx hold one value per job, fs is the server's file       *)
(* system and result is conversion_jobs                                    *)
(***************************************************************************)
\* the number of jobs uploaded
MaxJobs == 2

Jobs == 1..MaxJobs

\* the jars uploaded
JobJars ==
    {[name |-> F_x, entries |-> <<>>],
     [name |-> F_x, entries |-> <<E_item_gem>>],
     [name |-> F_a_b, entries |-> <<E_block_ore, E_recipe_3>>]}

\* str(uuid.uuid4()) of upload_file: a fresh identifier for each upload
JobId(j) == <<"job-1", "job-2", "job-3", "job-4">>[j]

\* Path(UPLOAD_FOLDER) / job_id / filename
UploadPath(job_id, filename) == <<"uploads", "/", job_id, "/">> \o filename

\* OutputDirShared: one directory for all jobs, the variant C17 is tested
\* against
OutputDirShared(job_id) == <<"outputs", "/">>

\* Path(OUTPUT_FOLDER) / job_id
OutputDir(job_id) == <<"outputs", "/", job_id, "/">>

\* datetime.now(); None is <<>>
Now == <<"now">>

\* ConversionJob.__init__
ConversionJob(job_id, filename) ==
    [job_id |-> job_id, filename |-> filename, status |-> "queued",
     progress |-> 0, result_file |-> <<>>, error |-> "",
     completed_at |-> <<>>, stats |-> EmptyDict]

\* the stages of transpile_jar in which it writes
EngineStages == <<"behavior_pack", "resource_pack", "mcaddon">>

\* the paths, relative to output_folder, that a stage of transpile_jar
\* writes for a jar
EngineWrites(jar, stage) ==
    LET its == {e.stem : e \in {d \in Range(jar.entries) :
                                  IsItemTexture(d) /\ d.readable}}
        bls == {e.stem : e \in {d \in Range(jar.entries) :
                                  ~IsItemTexture(d) /\ IsBlockTexture(d) /\ d.readable}}
        rcs == {e.stem : e \in {d \in Range(jar.entries) :
                                  /\ ~IsItemTexture(d) /\ ~IsBlockTexture(d)
                                  /\ IsRecipe(d) /\ d.readable /\ d.parses}}
    IN  CASE stage = "behavior_pack" ->
                {BP \o <<"manifest.json">>} \cup {ItemPath(n) : n \in its}
                    \cup {BlockPath(n) : n \in bls} \cup {RecipePath(n) : n \in rcs}
          [] stage = "resource_pack" ->
                {RP \o <<"manifest.json">>, ItemTexturePath, TerrainTexturePath,
                 BlocksJsonPath, LanguagesPath, EnUsPath}
                    \cup {ItemPngPath(n) : n \in its} \cup {BlockPngPath(n) : n \in bls}
          [] OTHER -> {ExtractModId(jar.name) \o <<".mcaddon">>}

\* the file transpile_jar writes at a path: it is derived from the jar the
\* thread was given and from nothing else
Document(jar, q) == [jar |-> jar, path |-> q]

\* the stats of the Ok dict for a jar
JobStats(jar) ==
    [items_processed   |-> Cardinality(EngineWrites(jar, "behavior_pack")
                                           \cap {ItemPath(e.stem) : e \in Range(jar.entries)}),
     assets_extracted  |-> Cardinality(EngineWrites(jar, "resource_pack")) - 6]

InitJobs ==
    /\ input \in [Jobs -> JobJars]
    /\ pc = [j \in Jobs |-> "new"]
    /\ idx = [j \in Jobs |-> JobId(j)]
    /\ mod_id = <<>>
    /\ item_textures = EmptyDict
    /\ block_textures = EmptyDict
    /\ recipes = <<>>
    /\ items = EmptyDict
    /\ blocks = EmptyDict
    /\ stats = [items |-> 0, blocks |-> 0, recipes |-> 0, textures |-> 0]
    /\ fs = EmptyDict
    /\ archive = EmptyDict
    /\ result = EmptyDict

jobsUnused == <<input, idx, analyzerVars, stats, archive>>

\* job j moves from one position to another
Goes(j, from, to) == pc[j] = from /\ pc' = [pc EXCEPT ![j] = to]

\* upload_file: the jar is saved, the job registered, the thread started
UploadFile(j) ==
    /\ Goes(j, "new", "queued")
    /\ WriteAll(UploadPath(idx[j], input[j].name) :> input[j])
    /\ result' = Put(result, idx[j], ConversionJob(idx[j], input[j].name))
    /\ UNCHANGED jobsUnused

\* process_conversion up to the call of transpile_jar (no thread but the
\* job's own reads its record in this specification, so the assignments of
\* one section are taken together)
StartConversion(j) ==
    /\ Goes(j, "queued", EngineStages[1])
    /\ result' = [result EXCEPT ![idx[j]].status = "processing",
                                ![idx[j]].progress = 20]
    /\ UNCHANGED fs
    /\ UNCHANGED jobsUnused

\* transpile_jar(jar_path, output_dir): one stage, from the jar read at
\* jar_path; a write that raises makes it return success False
TranspileStage(j) ==
    \E k \in 1..Len(EngineStages) :
        LET jar == fs[UploadPath(idx[j], input[j].name)]
            dir == OutputDir(idx[j])
            out == {dir \o q : q \in EngineWrites(jar, EngineStages[k])}
        IN  /\ \/ /\ Goes(j, EngineStages[k],
                          IF k < Len(EngineStages) THEN EngineStages[k + 1]
                          ELSE "transpiled")
                  /\ WriteAll([f \in out |->
                                 Document(jar, SubSeq(f, Len(dir) + 1, Len(f)))])
               \/ /\ Goes(j, EngineStages[k], "raising")
                  /\ UNCHANGED fs
            /\ UNCHANGED result
            /\ UNCHANGED jobsUnused

\* process_conversion after transpile_jar: completed, or failed
FinishConversion(j) ==
    LET jar == fs[UploadPath(idx[j], input[j].name)]
        mcaddon == OutputDir(idx[j]) \o ExtractModId(jar.name) \o <<".mcaddon">>
    IN  /\ \/ /\ Goes(j, "transpiled", "completed")
              /\ mcaddon \in DOMAIN fs
              /\ result' = [result EXCEPT ![idx[j]].status = "completed",
                                          ![idx[j]].progress = 100,
                                          ![idx[j]].result_file = mcaddon,
                                          ![idx[j]].completed_at = Now,
                                          ![idx[j]].stats = JobStats(jar)]
           \/ /\ \/ Goes(j, "raising", "failed")
                 \/ Goes(j, "transpiled", "failed") /\ mcaddon \notin DOMAIN fs
              /\ result' = [result EXCEPT ![idx[j]].status = "failed",
                                          ![idx[j]].error = "Exception",
                                          ![idx[j]].completed_at = Now]
        /\ UNCHANGED fs
        /\ UNCHANGED jobsUnused

\* cleanup_job, after its delay
CleanupJob(j) ==
    /\ \/ Goes(j, "completed", "cleaned")
       \/ Goes(j, "failed", "cleaned")
    /\ fs' = [q \in {f \in DOMAIN fs :
                        /\ ~Under(f, <<"uploads", "/", idx[j], "/">>)
                        /\ ~Under(f, OutputDir(idx[j]))} |-> fs[q]]
    /\ result' = [k \in DOMAIN result \ {idx[j]} |-> result[k]]
    /\ UNCHANGED jobsUnused

NextJobs ==
    \E j \in Jobs :
        \/ UploadFile(j)
        \/ StartConversion(j)
        \/ TranspileStage(j)
        \/ FinishConversion(j)
        \/ CleanupJob(j)

SpecJobs == InitJobs /\ [][NextJobs]_vars

(***************************************************************************)
(* One job of the job server and a client that asks for its result, step   *)
(* by step: the thread of process_conversion and cleanup_job is "job", the *)
(* request thread of download_result is "download".  Each assignment to    *)
(* the job's record is a step, since the request threads read the record   *)
(* while the job's thread writes it.  archive holds the record of a job    *)
(* that cleanup_job has deleted from conversion_jobs and that a request    *)
(* still refers to                                                         *)
(***************************************************************************)
InitServer ==
    /\ input \in [{"job"} -> JobJars]
    /\ pc = [job |-> "new", download |-> "idle"]
    /\ idx = [job |-> JobId(1)]
    /\ mod_id = <<>>
    /\ item_textures = EmptyDict
    /\ block_textures = EmptyDict
    /\ recipes = <<>>
    /\ items = EmptyDict
    /\ blocks = EmptyDict
    /\ stats = [items |-> 0, blocks |-> 0, recipes |-> 0, textures |-> 0]
    /\ fs = EmptyDict
    /\ archive = EmptyDict
    /\ result = EmptyDict

\* the .mcaddon transpile_jar names in its result for job j
OutputFile(j) ==
    OutputDir(idx[j]) \o ExtractModId(input[j].name) \o <<".mcaddon">>

\* one assignment job.field = value of process_conversion
Assign(j, from, field, value, to) ==
    /\ Goes(j, from, to)
    /\ result' = [result EXCEPT ![idx[j]][field] = value]
    /\ UNCHANGED fs
    /\ UNCHANGED jobsUnused

\* process_conversion from its first line to the call of transpile_jar
BeginConversion(j) ==
    \/ Assign(j, "queued", "status", "processing", "progress_10")
    \/ Assign(j, "progress_10", "progress", 10, "progress_20")
    \/ Assign(j, "progress_20", "progress", 20, EngineStages[1])

\* process_conversion after a successful transpile_jar: the .mcaddon is
\* looked for, then the record is filled in and the cleanup is scheduled
CompleteConversion(j) ==
    LET mcaddon_file == OutputFile(j)
    IN  \/ Assign(j, "transpiled", "progress", 90, "located")
        \/ IF mcaddon_file \in DOMAIN fs
           THEN Assign(j, "located", "status", "completed", "progress_100")
           ELSE /\ Goes(j, "located", "raising")
                /\ UNCHANGED <<fs, result>>
                /\ UNCHANGED jobsUnused
        \/ Assign(j, "progress_100", "progress", 100, "result_file")
        \/ Assign(j, "result_file", "result_file", mcaddon_file, "completed_at")
        \/ Assign(j, "completed_at", "completed_at", Now, "stats")
        \/ Assign(j, "stats", "stats", JobStats(input[j]), "completed")

\* the except clause of process_conversion
FailConversion(j) ==
    \/ Assign(j, "raising", "status", "failed", "error")
    \/ Assign(j, "error", "error", "Exception", "failed_at")
    \/ Assign(j, "failed_at", "completed_at", Now, "failed")

\* ScheduledOnSuccess: a cleanup is started on the success path alone, the
\* variant C30 is tested against
ScheduledOnSuccess == {"completed"}

\* the positions at whose end threading.Thread(target=cleanup_job) is
\* started: the end of the try block and the end of the except clause
Scheduled == {"completed", "failed"}

\* cleanup_job after its delay: the upload directory, the output
\* directory, then the entry of conversion_jobs
CleanupSteps(j) ==
    LET without(dir) == [q \in {f \in DOMAIN fs : ~Under(f, dir)} |-> fs[q]]
    IN  \/ /\ pc[j] \in Scheduled
           /\ pc' = [pc EXCEPT ![j] = "rm_output"]
           /\ fs' = without(<<"uploads", "/", idx[j], "/">>)
           /\ UNCHANGED result
           /\ UNCHANGED jobsUnused
        \/ /\ Goes(j, "rm_output", "del_job")
           /\ fs' = without(OutputDir(idx[j]))
           /\ UNCHANGED result
           /\ UNCHANGED jobsUnused
        \/ /\ Goes(j, "del_job", "cleaned")
           /\ result' = [k \in DOMAIN result \ {idx[j]} |-> result[k]]
           /\ archive' = Put(archive, idx[j], result[idx[j]])
           /\ UNCHANGED <<fs, input, idx, analyzerVars, stats>>

\* the ConversionJob a request got from conversion_jobs[job_id]
JobObject(job_id) ==
    IF job_id \in DOMAIN result THEN result[job_id] ELSE archive[job_id]

\* download_result(job_id), check by check; "raised" is an exception that
\* leaves the handler (KeyError from conversion_jobs[job_id], or
\* FileNotFoundError from send_file)
DownloadResult(job_id) ==
    LET to(from, then) == pc["download"] = from /\ pc' = [pc EXCEPT !["download"] = then]
        job == JobObject(job_id)
    IN  /\ \/ to("idle", "404") /\ job_id \notin DOMAIN result
           \/ to("idle", "get_job") /\ job_id \in DOMAIN result
           \/ to("get_job", "raised") /\ job_id \notin DOMAIN result
           \/ to("get_job", "check_status") /\ job_id \in DOMAIN result
           \/ to("check_status", "400") /\ job.status # "completed"
           \/ to("check_status", "check_file") /\ job.status = "completed"
           \/ /\ to("check_file", "404")
              /\ job.result_file = <<>> \/ job.result_file \notin DOMAIN fs
           \/ /\ to("check_file", "send_file")
              /\ job.result_file # <<>> /\ job.result_file \in DOMAIN fs
           \/ to("send_file", "raised") /\ job.result_file \notin DOMAIN fs
           \/ to("send_file", "200") /\ job.result_file \in DOMAIN fs
           \/ \E r \in {"404", "400", "200", "raised"} : to(r, "idle")
        /\ UNCHANGED <<input, idx, analyzerVars, stats, fs, archive, result>>

\* get_status(job_id) when both its reads see the same conversion_jobs
GetStatus(job_id) ==
    IF job_id \notin DOMAIN result THEN [code |-> 404, body |-> EmptyDict]
    ELSE [code |-> 200, body |-> result[job_id]]

\* the steps of the job's own threads
JobSteps(j) ==
    \/ BeginConversion(j)
    \/ TranspileStage(j)
    \/ CompleteConversion(j)
    \/ FailConversion(j)
    \/ CleanupSteps(j)

NextServer ==
    \/ UploadFile("job")
    \/ BeginConversion("job")
    \/ TranspileStage("job")
    \/ CompleteConversion("job")
    \/ FailConversion("job")
    \/ CleanupSteps("job")
    \/ DownloadResult(JobId(1))

SpecServer == InitServer /\ [][NextServer]_vars

\* transpile_jar returns and the threads are scheduled fairly
SpecServerLive == SpecServer /\ WF_vars(JobSteps("job"))

(***************************************************************************)
(* Properties                                                              *)
(***************************************************************************)
\* transpile_jar has returned {'success': True, ...}
Succeeded == pc = "returned" /\ result.success

\* a run of either engine that produced its .mcaddon
Packed == Succeeded \/ pc = "v1_done"

ManifestPaths == {q \in DOMAIN archive : Last(q) = "manifest.json"}

ItemDocPaths == {q \in DOMAIN archive : Under(q, BP \o <<"items", "/">>)}

Icon(doc) == doc.body.components["minecraft:icon"].texture

\* C1: after a successful run the addon holds exactly two manifests, their
\* four identifiers (behavior-pack header and module, resource-pack header
\* and module) are pairwise distinct, and the behavior-pack manifest has
\* exactly one dependency, whose uuid is the resource-pack header uuid.
C1_ManifestsDistinctAndLinked ==
    Packed =>
        /\ ManifestPaths = {BP \o <<"manifest.json">>, RP \o <<"manifest.json">>}
        /\ LET bp == archive[BP \o <<"manifest.json">>]
               rp == archive[RP \o <<"manifest.json">>]
           IN  /\ Len(bp.modules) = 1
               /\ Len(rp.modules) = 1
               /\ Cardinality({<<"v", bp.header.uuid>>, <<"v", bp.modules[1].uuid>>,
                               <<"v", rp.header.uuid>>, <<"v", rp.modules[1].uuid>>}) = 4
               /\ Len(bp.dependencies) = 1
               /\ "uuid" \in DOMAIN bp.dependencies[1]
               /\ bp.dependencies[1].uuid = rp.header.uuid

\* C2: the icon string of every item document of behavior_pack/items/ is a
\* key of texture_data in item_texture.json, and every key of that atlas is
\* the icon string of some item document.
C2_IconsAreAtlasKeys ==
    Succeeded =>
        LET atlas == archive[ItemTexturePath].texture_data
        IN  /\ \A q \in ItemDocPaths : Icon(archive[q]) \in DOMAIN atlas
            /\ \A k \in DOMAIN atlas : \E q \in ItemDocPaths : Icon(archive[q]) = k

\* C3: every entry of item_texture.json and of terrain_texture.json names
\* a texture file under textures/items/ or textures/blocks/ that is in the
\* archive, also when a texture copy failed.
C3_NoDanglingAtlasEntry ==
    Succeeded =>
        LET itemAtlas == archive[ItemTexturePath].texture_data
            terrain   == archive[TerrainTexturePath].texture_data
        IN  /\ \A k \in DOMAIN itemAtlas :
                  /\ HasAt(itemAtlas[k].textures, 1, <<"textures", "/", "items", "/">>)
                  /\ (RP \o itemAtlas[k].textures \o <<".png">>) \in DOMAIN archive
            /\ \A k \in DOMAIN terrain :
                  /\ HasAt(terrain[k].textures, 1, <<"textures", "/", "blocks", "/">>)
                  /\ (RP \o terrain[k].textures \o <<".png">>) \in DOMAIN archive

\* C4: for every item document of behavior_pack/items/ there is a document
\* in resource_pack/items/ with the same identifier.
C4_ResourceSideItems ==
    Succeeded =>
        \A q \in ItemDocPaths :
            \E r \in DOMAIN archive :
                /\ Under(r, RP \o <<"items", "/">>)
                /\ archive[r].body.description.identifier
                       = archive[q].body.description.identifier

\* C5: no recipe document written to behavior_pack/recipes/ has a pattern
\* of more than three rows or a row of more than three characters.
C5_PatternsAtMost3x3 ==
    \A q \in DOMAIN fs :
        (Under(q, BP \o <<"recipes", "/">>) /\ "pattern" \in DOMAIN fs[q].body) =>
            /\ Len(fs[q].body.pattern) <= 3
            /\ \A i \in 1..Len(fs[q].body.pattern) : Len(fs[q].body.pattern[i]) <= 3

\* C6: every block of the IR induces an item of the same id with stack_max
\* 64 marked as a block-item, so that an input with only block textures
\* yields one item per block and no armor; and every block_placer target of
\* an emitted item has a block document with that identifier.
C6_BlocksInduceItems ==
    Succeeded =>
        /\ \A b \in DOMAIN blocks :
              \E n \in DOMAIN items :
                  /\ items[n].identifier = blocks[b].identifier
                  /\ items[n].max_stack_size = 64
                  /\ Get(items[n], "is_block_item", FALSE)
        /\ item_textures = EmptyDict =>
              /\ Cardinality(DOMAIN items) = Cardinality(DOMAIN blocks)
              /\ \A n \in DOMAIN items : ~items[n].is_armor
        /\ \A q \in ItemDocPaths :
              "minecraft:block_placer" \in DOMAIN archive[q].body.components =>
                  \E r \in DOMAIN archive :
                      /\ Under(r, BP \o <<"blocks", "/">>)
                      /\ archive[r].body.description.identifier
                             = archive[q].body.components["minecraft:block_placer"].block

AttachablePath(id) == RP \o <<"attachables", "/">> \o id \o <<".json">>

ArmorGeometries ==
    {<<"geometry.player.armor.">> \o w : w \in ArmorWords}

\* C7: every armored item has an attachable document at
\* resource_pack/attachables/{id}.json whose geometry is
\* geometry.player.armor.{helmet|chestplate|leggings|boots}.
C7_ArmorHasAttachable ==
    Succeeded =>
        \A n \in DOMAIN items :
            items[n].is_armor =>
                /\ AttachablePath(items[n].identifier) \in DOMAIN archive
                /\ archive[AttachablePath(items[n].identifier)].geometry
                       \in ArmorGeometries

\* C8: blocks.json has exactly one entry per block of the IR, every key is
\* {mod_id}:{block_id}, and there is no key for anything else; the blocks
\* of the IR are the block textures read from the archive.
C8_BlocksJsonOnePerBlock ==
    BlocksJsonPath \in DOMAIN fs =>
        /\ DOMAIN fs[BlocksJsonPath]
               = {mod_id \o <<":">> \o blocks[b].identifier : b \in DOMAIN blocks}
        /\ Cardinality(DOMAIN fs[BlocksJsonPath]) = Cardinality(DOMAIN blocks)
        /\ {blocks[b].identifier : b \in DOMAIN blocks}
               = {e.stem : e \in {d \in Range(input.entries) :
                                     IsBlockTexture(d) /\ d.readable}}
        /\ Succeeded =>
              /\ BlocksJsonPath \in DOMAIN archive
              /\ archive[BlocksJsonPath] = fs[BlocksJsonPath]

\* a successful run whose archive lists a block in blocks.json, with an
\* item in the IR that is no block
C8_Witness ==
    /\ Succeeded
    /\ BlocksJsonPath \in DOMAIN archive
    /\ (mod_id \o <<":">> \o N_ore) \in DOMAIN archive[BlocksJsonPath]
    /\ N_boots \in DOMAIN items

Stages == {"read", "index", "synth", "lower", "assemble", "pack"}

\* C9: transpile always returns a tagged result: Ok carries mod_id, the
\* output archive path and the counters items_processed, blocks_processed,
\* recipes_converted, assets_extracted and errors; Err carries the tag of
\* the failing stage and a message.
C9_TaggedResult ==
    pc = "returned" =>
        /\ "success" \in DOMAIN result
        /\ result.success =>
              /\ {"mod_id", "output_file", "stats"} \subseteq DOMAIN result
              /\ {"items_processed", "blocks_processed", "recipes_converted",
                  "assets_extracted", "errors"} \subseteq DOMAIN result.stats
        /\ ~result.success =>
              /\ {"stage", "message"} \subseteq DOMAIN result
              /\ result.stage \in Stages

\* C10: the derived mod id is non-empty and made of the characters a-z and
\* 0-9 only ("mod" when nothing else is left).
C10_ModIdAlphanumeric ==
    pc = "analyzer_ready" =>
        /\ mod_id # <<>>
        /\ \A i \in 1..Len(mod_id) : mod_id[i] \in Range(LowerCase) \cup Digits

\* C11: mod-id derivation is idempotent: deriving again from a derived mod
\* id gives that mod id back.
C11_DeriveIdempotent ==
    pc = "analyzer_ready" => ExtractModId(mod_id) = mod_id

\* the index of the first ":" of an id that has one
FirstColon(id) == CHOOSE i \in 1..Len(id) : id[i] = ":" /\ \A j \in 1..(i - 1) : id[j] # ":"

\* the part of an id before its first ":"
Namespace(id) == SubSeq(id, 1, FirstColon(id) - 1)

\* C12: a normalized item id is the id itself when its namespace is
\* minecraft, {mod_id}:{path} when it has another namespace, {mod_id}:{id}
\* when it has none; so it has one namespace, minecraft or mod_id.
C12_NamespaceNormalized ==
    pc \in {"fixed", "fixed_v2", "fixed_v1"} =>
        LET id  == input.item_id
            out == result.item
        IN  /\ ":" \notin Range(id) => out = mod_id \o <<":">> \o id
            /\ ":" \in Range(id) =>
                  IF Namespace(id) = <<"minecraft">>
                  THEN out = id
                  ELSE out = mod_id \o <<":">> \o SubSeq(id, FirstColon(id) + 1, Len(id))
            /\ ":" \in Range(out)
            /\ Namespace(out) \in {<<"minecraft">>, mod_id}
            /\ Cardinality({i \in 1..Len(out) : out[i] = ":"}) = 1

\* what the input alone fixes: the stems of its readable item and block
\* textures, and its recipes that parse and lower to a document
InputItems ==
    {e.stem : e \in {d \in Range(input.entries) : IsItemTexture(d) /\ d.readable}}

InputBlocks ==
    {e.stem : e \in {d \in Range(input.entries) :
                        ~IsItemTexture(d) /\ IsBlockTexture(d) /\ d.readable}}

InputRecipes ==
    {e.stem : e \in {d \in Range(input.entries) :
                        /\ ~IsItemTexture(d) /\ ~IsBlockTexture(d) /\ IsRecipe(d)
                        /\ d.readable /\ d.parses
                        /\ Truthy(ConvertRecipe([id |-> d.stem, data |-> d.data],
                                                ExtractModId(input.name)))}}

InputPaths ==
    {BP \o <<"manifest.json">>, RP \o <<"manifest.json">>, ItemTexturePath,
     TerrainTexturePath, BlocksJsonPath, LanguagesPath, EnUsPath}
        \cup {ItemPath(n) : n \in InputItems} \cup {ItemPngPath(n) : n \in InputItems}
        \cup {BlockPath(n) : n \in InputBlocks} \cup {BlockPngPath(n) : n \in InputBlocks}
        \cup {RecipePath(n) : n \in InputRecipes}

\* C13: the addon of a successful run is fixed by the input archive: its
\* set of file paths, and every document in it but for the four manifest
\* identifiers (and the description's date), are the same in every run on
\* that input.
C13_OutputFixedByInput ==
    Succeeded =>
        LET mod == ExtractModId(input.name)
        IN  /\ DOMAIN archive = InputPaths
            /\ \A n \in InputItems :
                  /\ archive[ItemPath(n)] = ConvertItem(ItemFromTexture(n), mod)
                  /\ ItemAtlasKey(mod, n) \in DOMAIN archive[ItemTexturePath].texture_data
            /\ \A n \in InputBlocks :
                  /\ archive[BlockPath(n)] = ConvertBlock(BlockFromTexture(n), mod)
                  /\ TerrainKey(mod, n) \in DOMAIN archive[TerrainTexturePath].texture_data
            /\ DOMAIN archive[ItemTexturePath].texture_data
                   = {ItemAtlasKey(mod, n) : n \in InputItems}
            /\ DOMAIN archive[TerrainTexturePath].texture_data
                   = {TerrainKey(mod, n) : n \in InputBlocks}
            /\ DOMAIN archive[BlocksJsonPath] = {BlocksJsonKey(mod, n) : n \in InputBlocks}
            /\ archive[EnUsPath].lines
                   = {ItemLangLine(mod, n) : n \in InputItems}
                         \cup {TileLangLine(mod, n) : n \in InputBlocks}
            /\ [archive[BP \o <<"manifest.json">>] EXCEPT
                    !.header.uuid = 0, !.modules = <<>>, !.dependencies = <<>>]
                   = [BpManifest(0, 0, 0) EXCEPT !.modules = <<>>, !.dependencies = <<>>]
            /\ [archive[RP \o <<"manifest.json">>] EXCEPT
                    !.header.uuid = 0, !.modules = <<>>]
                   = [RpManifest(0, 0) EXCEPT !.modules = <<>>]

\* the entries of the input that a branch of the scan takes and that cannot
\* be read or parsed
CorruptIndices ==
    {i \in 1..Len(input.entries) :
        LET e == input.entries[i]
        IN  /\ IsItemTexture(e) \/ IsBlockTexture(e) \/ IsRecipe(e)
            /\ ~e.readable \/ (~IsItemTexture(e) /\ ~IsBlockTexture(e) /\ ~e.parses)}

\* C14: an entry that cannot be read or parsed is skipped, every other
\* entry is still processed, the run still returns Ok, and the errors
\* counter of the result counts one for each such entry.
C14_CorruptEntryCounted ==
    pc = "returned" =>
        /\ result.success
              \/ (input.exists /\ input.is_zip /\ result.error = "OSError")
        /\ result.success =>
              /\ InputItems \subseteq DOMAIN items
              /\ InputBlocks \subseteq DOMAIN blocks
              /\ "errors" \in DOMAIN result.stats
              /\ result.stats.errors = Cardinality(CorruptIndices)

\* the archive was opened and holds no item and no block
NoContent ==
    /\ pc = "returned"
    /\ input.exists /\ input.is_zip
    /\ InputItems = {} /\ InputBlocks = {}

RecipeDocPaths == {q \in DOMAIN archive : Under(q, BP \o <<"recipes", "/">>)}

Oversized(recipe) ==
    /\ "pattern" \in DOMAIN recipe.data
    /\ \/ Len(recipe.data.pattern) > 3
       \/ \E i \in 1..Len(recipe.data.pattern) : Len(recipe.data.pattern[i]) > 3

\* C16: a recipe whose pattern exceeds 3x3 is skipped: no recipe file is
\* written for it and it is not counted, so recipes_converted is at most
\* the number of recipes within 3x3 and, with one recipe per id, equals the
\* number of recipe files of the addon.
C16_OversizedSkipped ==
    Succeeded =>
        LET within == {i \in 1..Len(recipes) : ~Oversized(recipes[i])}
        IN  /\ \A i \in 1..Len(recipes) :
                  (Oversized(recipes[i]) /\ \A j \in within : recipes[j].id # recipes[i].id)
                      => RecipePath(recipes[i].id) \notin DOMAIN archive
            /\ result.stats.recipes_converted <= Cardinality(within)
            /\ (\A i, j \in 1..Len(recipes) : recipes[i].id = recipes[j].id => i = j)
                  => result.stats.recipes_converted = Cardinality(RecipeDocPaths)
\* what job j produces when it runs alone: the files under its output
\* directory once every stage has written, and its completed record
AloneFiles(j) ==
    {<<OutputDir(idx[j]) \o q, Document(input[j], q)>> :
        q \in UNION {EngineWrites(input[j], EngineStages[k]) :
                        k \in 1..Len(EngineStages)}}

AloneRecord(j) ==
    [job_id |-> idx[j], filename |-> input[j].name, status |-> "completed",
     progress |-> 100,
     result_file |-> OutputDir(idx[j]) \o ExtractModId(input[j].name) \o <<".mcaddon">>,
     error |-> "", completed_at |-> Now, stats |-> JobStats(input[j])]

\* the files under the output directory of job j
JobFiles(j) ==
    {<<f, fs[f]>> : f \in {g \in DOMAIN fs : Under(g, OutputDir(idx[j]))}}

GivenResult(data) ==
    LET res == Get(data, "result", EmptyDict)
    IN  [id    |-> IF "str" \in DOMAIN res THEN res.str
                   ELSE Get(res, "item", Get(res, "id", Id_air)),
         count |-> Get(res, "count", 1)]

\* C18: a result in any of the three shapes, {item, count}, {id, count} or a
\* bare string, is lowered to {item: normalized id, count} with count 1 by
\* default, and a recipe without a result is still emitted, with
\* minecraft:air and count 1; by convert_recipe of the engine in use and by
\* _convert_result of the job-server engine
C18_ResultLowered ==
    /\ pc = "lowered" =>
          /\ result.item # PyNone
          /\ result.item.body.result =
                [item  |-> FixItemId(GivenResult(input.data).id, mod_id),
                 count |-> GivenResult(input.data).count]
    /\ pc = "result_v2" =>
          result.item =
                [item  |-> NormalizeItemId(GivenResult(input.data).id, mod_id),
                 count |-> GivenResult(input.data).count]

\* minecraft: and the last path segment of a tag, its namespace removed
TagItem(tag) == <<"minecraft", ":">> \o Last(Split(Last(Split(tag, ":")), "/"))

\* C19: every tag ingredient, in a shaped key or a shapeless list, is
\* lowered to the item minecraft:<last segment of the tag>, no emitted
\* recipe has a tag ingredient and none is lost; by convert_recipe of the
\* engine in use and by _convert_ingredient of the job-server engine
C19_TagsLowered ==
    LET given == IngredientsOf(input.data)
        lowered(out) ==
            /\ Len(out) = Len(given)
            /\ \A i \in 1..Len(given) :
                  /\ "tag" \notin DOMAIN out[i]
                  /\ "tag" \in DOMAIN given[i] => out[i].item = TagItem(given[i].tag)
    IN  /\ (pc = "lowered" /\ result.item # PyNone) =>
              lowered(IF "key" \in DOMAIN result.item.body
                      THEN <<result.item.body.key.A, result.item.body.key.B>>
                      ELSE result.item.body.ingredients)
        /\ pc = "ingredients_v2" => lowered(result.item)

\* C20: no manifest is written before the check that the four identifiers
\* are pairwise distinct has succeeded (after at most one regeneration,
\* else the run aborts with Err and writes no manifest): at every moment of
\* a run, the identifiers of the manifests on disk are pairwise distinct.
C20_ManifestsWrittenAfterCheck ==
    LET bpPath == BP \o <<"manifest.json">>
        rpPath == RP \o <<"manifest.json">>
        ids(q) == IF q \notin DOMAIN fs THEN <<>>
                  ELSE IF q = bpPath
                  THEN <<fs[q].header.uuid, fs[q].modules[1].uuid,
                         fs[q].dependencies[1].uuid>>
                  ELSE <<fs[q].header.uuid, fs[q].modules[1].uuid>>
        distinct(seq) == \A i, j \in 1..Len(seq) : seq[i] = seq[j] => i = j
    IN  /\ distinct(ids(bpPath))
        /\ distinct(ids(rpPath))
        /\ (bpPath \in DOMAIN fs /\ rpPath \in DOMAIN fs) =>
              distinct(SubSeq(ids(bpPath), 1, 2) \o ids(rpPath))

\* the three orderings of C21, as conditions on one step
BlocksIndexedFirst ==
    item_textures' # item_textures =>
        \A i \in idx..Len(input.entries) :
            ~(IsBlockTexture(input.entries[i]) /\ input.entries[i].readable)

ExtractionBeforeSynthesis ==
    (items' # items \/ blocks' # blocks) => idx > Len(input.entries)

SynthesisBeforeLowering ==
    fs' # fs =>
        /\ idx > Len(input.entries)
        /\ DOMAIN items = DOMAIN item_textures
        /\ DOMAIN blocks = DOMAIN block_textures

\* C21: for every order of the archive's entries, no item texture is
\* indexed while a block texture is still to be indexed, no item or block
\* is synthesized before every entry is extracted, and nothing is written
\* before synthesis is complete.
C21_StagesOrdered ==
    [][BlocksIndexedFirst /\ ExtractionBeforeSynthesis /\ SynthesisBeforeLowering]_vars

\* a recipe JSON of the custom kind
IsCustom(data) ==
    /\ "pattern" \notin DOMAIN data
    /\ "ingredients" \notin DOMAIN data
    /\ "primary" \in DOMAIN data \/ "secondary" \in DOMAIN data

\* C22: a recipe with no pattern and no ingredients but with primary and/or
\* secondary is emitted as a shapeless recipe whose ingredients are the
\* lowered primary (if present), the lowered secondary (if present), then
\* every other top-level ingredient-shaped field; an absent primary or
\* secondary contributes nothing.
C22_CustomRecipeIngredients ==
    (pc = "lowered_v2" /\ IsCustom(input.data)) =>
        LET data  == input.data
            given == (IF "primary" \in DOMAIN data THEN <<data.primary>> ELSE <<>>)
                     \o (IF "secondary" \in DOMAIN data THEN <<data.secondary>> ELSE <<>>)
                     \o OtherIngredients(data)
        IN  /\ result.item # PyNone
            /\ result.item.kind = "minecraft:recipe_shapeless"
            /\ result.item.body.ingredients =
                  [i \in 1..Len(given) |-> ConvertIngredientV2(given[i], mod_id)]

\* the role words an id contains, matched case-insensitively
HasWord(id, words) == \E w \in words : Contains(Lower(id), w)

\* C23: after synthesis an item whose id contains a tool word, in any case,
\* is a tool with stack_max 1 and durability 250; one whose id contains an
\* armor word, in any case, is armor with stack_max 1 and durability > 0;
\* any other item has stack_max in 1..64.
C23_RoleInvariants ==
    pc \in {"synthesized", "synthesized_v2"} =>
        LET item == result.item
            id   == item.identifier
        IN  /\ HasWord(id, ToolWords) =>
                  /\ item.max_stack_size = 1
                  /\ item.max_damage = 250
                  /\ pc = "synthesized" => item.is_tool
            /\ (HasWord(id, ArmorWords) /\ ~HasWord(id, ToolWords)) =>
                  /\ item.max_stack_size = 1
                  /\ item.max_damage > 0
                  /\ pc = "synthesized" => item.is_armor
            /\ item.max_stack_size \in 1..64

\* C24: for every scanned durability N >= 0, Integer.MAX_VALUE included,
\* the emitted item has a durability component exactly when N > 0, and its
\* max_durability is min(N, 32767), which lies in 1..32767; in each of the
\* three engines.
C24_DurabilityClamped ==
    pc \in {"lowered", "lowered_v2", "lowered_v1"} =>
        LET N == input.max_damage
            components == result.item
        IN  /\ "minecraft:durability" \in DOMAIN components <=> N > 0
            /\ N > 0 =>
                  LET d == components["minecraft:durability"].max_durability
                  IN  /\ d = (IF N < 32767 THEN N ELSE 32767)
                      /\ d \in 1..32767

C24_Witness ==
    /\ pc = "lowered"
    /\ input.max_damage = JavaMaxValue
    /\ result.item["minecraft:durability"].max_durability = 32767

LangPath(lang) == RP \o <<"texts", "/", lang \o ".lang">>

\* C25: after a successful run en_US.lang and pt_BR.lang are both in the
\* addon, every language listed in texts/languages.json has its .lang
\* file, and every .lang file has the item line of every item and the tile
\* line of every block.
C25_LanguageTablesComplete ==
    Succeeded =>
        LET listed == Range(archive[LanguagesPath].languages)
            files  == {q \in DOMAIN archive :
                          Under(q, RP \o <<"texts", "/">>) /\ q # LanguagesPath}
        IN  /\ {LangPath("en_US"), LangPath("pt_BR")} \subseteq DOMAIN archive
            /\ \A l \in listed : LangPath(l) \in DOMAIN archive
            /\ \A q \in files :
                  /\ \A n \in DOMAIN items : ItemLangLine(mod_id, n) \in archive[q].lines
                  /\ \A n \in DOMAIN blocks : TileLangLine(mod_id, n) \in archive[q].lines

BlockDocPaths == {q \in DOMAIN archive : Under(q, BP \o <<"blocks", "/">>)}

\* the textures value of every blocks.json entry is a key of the terrain
\* atlas
BlocksJsonResolves ==
    Succeeded =>
        \A k \in DOMAIN archive[BlocksJsonPath] :
            archive[BlocksJsonPath][k].textures
                \in DOMAIN archive[TerrainTexturePath].texture_data

\* C26: for every emitted block, the texture named in its material
\* instances and the textures value of its blocks.json entry are both keys
\* of texture_data in terrain_texture.json.
C26_BlockTexturesResolve ==
    /\ BlocksJsonResolves
    /\ Succeeded =>
          \A q \in BlockDocPaths :
              archive[q].body.components.material_instances.texture
                  \in DOMAIN archive[TerrainTexturePath].texture_data

\* the item documents on disk, by the name of their file
ItemFiles == {n \in DOMAIN items : ItemPath(n) \in DOMAIN fs}

DocId(n) == fs[ItemPath(n)].body.description.identifier

\* C27: every file behavior_pack/items/{name}.json holds the identifier
\* {mod_id}:{name}, also when the id comes from a register("...") literal;
\* no identifier is in two files; and the atlas key and the language line
\* of an item use the identifier of its document.
C27_ItemFileNamedAfterId ==
    /\ \A n \in ItemFiles : DocId(n) = mod_id \o <<":">> \o n
    /\ \A n, k \in ItemFiles : DocId(n) = DocId(k) => n = k
    /\ pc = "done_v2" =>
          \A n \in ItemFiles :
              /\ n \in DOMAIN item_textures =>
                    DocId(n) \in DOMAIN fs[ItemTexturePath].texture_data
              /\ <<"item.">> \o DocId(n) \o <<".name=">>
                     \o Display(SubSeq(DocId(n), Len(mod_id) + 2, Len(DocId(n))))
                   \in fs[EnUsPath].lines

\* the one ConversionJob of the job server, once upload_file has made it
Created == JobId(1) \in DOMAIN result \cup DOMAIN archive

Job == JobObject(JobId(1))

Terminal == {"completed", "failed"}

\* status goes queued -> processing -> completed or failed, and stays
StatusFlow ==
    (Created /\ Job'.status # Job.status) =>
        \/ Job.status = "queued" /\ Job'.status = "processing"
        \/ Job.status = "processing" /\ Job'.status \in Terminal

ProgressGrows == Created => Job'.progress >= Job.progress

ResultFileOnlyCompleted ==
    (Created /\ Job.result_file # <<>>) => Job.status = "completed"

ErrorOnlyFailed == (Created /\ Job.error # "") => Job.status = "failed"

CompletedAtExactlyTerminal ==
    Created => (Job.completed_at # <<>> <=> Job.status \in Terminal)

\* C28: a ConversionJob goes queued -> processing -> completed or failed
\* and nothing else; completed and failed are terminal; progress never
\* decreases; result_file is set only in completed, error only in failed,
\* and completed_at is set exactly when the status is completed or failed.
C28_JobLifecycle ==
    /\ [][StatusFlow /\ ProgressGrows]_vars
    /\ [](ResultFileOnlyCompleted /\ ErrorOnlyFailed /\ CompletedAtExactlyTerminal)

\* download_result answers with code at this step
Answers(code) == pc["download"] # code /\ pc'["download"] = code

InJobs == JobId(1) \in DOMAIN result

\* send_file is reached only for a job of conversion_jobs that is
\* completed and whose result file is on disk
ServesOnlyCompleted ==
    Answers("200") =>
        /\ InJobs
        /\ result[JobId(1)].status = "completed"
        /\ result[JobId(1)].result_file \in DOMAIN fs

\* a request that finds no job answers 404, and 400 is the answer for a
\* job that is not completed, and for no other
AnswersByStatus ==
    /\ (pc["download"] = "idle" /\ pc'["download"] # "idle" /\ ~InJobs)
           => Answers("404")
    /\ Answers("400") => Job.status \in {"queued", "processing", "failed"}
    /\ (pc["download"] = "check_status" /\ pc'["download"] # "check_status"
            /\ Job.status # "completed") => Answers("400")

\* no exception leaves download_result
NeverRaises == pc["download"] # "raised"

\* C29: under every interleaving with process_conversion and cleanup_job,
\* download_result serves a file only for a job that is in conversion_jobs,
\* completed and whose result file exists; it answers 404 for a job that
\* is unknown or cleaned and 400 for a queued, processing or failed job;
\* and it never raises because cleanup_job removed the job or its file
\* between two of its checks.
C29_DownloadSafe ==
    /\ [][ServesOnlyCompleted /\ AnswersByStatus]_vars
    /\ []NeverRaises

\* the job's status is completed or failed
Finished == InJobs /\ result[JobId(1)].status \in Terminal

\* cleanup_job has deleted the job from conversion_jobs
Gone == Created /\ ~InJobs

\* nothing is left of the job's upload and output directories
DirectoriesRemoved ==
    \A f \in DOMAIN fs :
        /\ ~Under(f, <<"uploads", "/", JobId(1), "/">>)
        /\ ~Under(f, OutputDir(JobId(1)))

====
